---- MODULE Spec2Model ----
(***************************************************************************)
(* Verification model of GPU-Saturation-Scorer (AGI).                      *)
(*                                                                         *)
(*  - SpecIO    : the shared-store writer protocol of AGI/io/MetricsDataIO *)
(*                (advisory file lock, pickled coordination record,        *)
(*                sqlite dump, cleanup on handle destruction), one process *)
(*                per rank, interleaved at the level of file-system calls. *)
(*  - SpecIOHang: the same writers under weak fairness, where a writer   *)
(*                may stop while it holds the lock.                        *)
(*  - SpecRun   : one capture of the sampler, GPUMetricsProfiler.run and   *)
(*                truncate_data, against a clock and a child process that  *)
(*                exits on its own schedule.                               *)
(*  - SpecMerge : one run of ExportDataHandler.export_db over the per-rank *)
(*                records of a job step, into a store that is empty or     *)
(*                holds the tables of an earlier step, followed by a       *)
(*                second export of the same records to compare it with.    *)
(*  - SpecTruncate: GPUMetricsProfiler.truncate_data applied twice in a    *)
(*                row to series of every shape the polling loop can build. *)
(*  - SpecRoundTrip: JSONDataIO.dump of a record of the sampler followed by  *)
(*                JSONDataIO.load of the file it wrote.                    *)
(*  - SpecRead  : the writers of SpecIO next to a process that opens the   *)
(*                store through a read-only handle, reads it and tries to  *)
(*                write through the handle.                                *)
(*  - SpecClean : one call of the cleanser's detect on a short series of   *)
(*                utilization samples, as section 4.5 of the               *)
(*                specification describes it.                              *)
(*  - SpecRunFair: the capture of SpecRun under weak fairness of the steps *)
(*                of the rank, going on past the recorded polls.           *)
(*  - SpecHandler: the export handler from its construction on a store     *)
(*                that may exist, over records of which some lack a        *)
(*                section.                                                 *)
(*  - SpecDownsample: one call of downsampleMetrics of profiler/metrics.py.*)
(***************************************************************************)
EXTENDS Integers, Sequences, FiniteSets, TLC

(***************************************************************************)
(* Bounds of the model.                                                    *)
(***************************************************************************)
NWriters == 3
TablesPerRank == 2

\* polls of the profiling loop in one capture
MaxPolls == 2
\* last tick of the wall clock
MaxTime == 3
\* per-rank record files handed to one export
MaxRecords == 2
\* samples per series in a per-rank record
MaxSeriesLen == 2
\* samples per series when truncate_data is called
MaxCaptured == 3
\* samples of a series handed to the cleanser
MaxTrace == 5
\* longest list handed to downsampleMetrics
MaxValues == 4

Writers == 1..NWriters
\* inodes the lock path can name over a run: one per creation of the lock file
Inodes == 1..(NWriters + 1)
\* contribution 0 is the content of a store that exists before the run
OldTable == <<0, 1>>
RankTables(w) == {<<w, k>> : k \in 1..TablesPerRank}

VARIABLES
    \* ---- shared store protocol (MetricsDataIO.py) ----
    forceOverwrite,   \* self.forceOverwrite, the same for every rank of a run
    preExists,        \* the store existed before the first writer started
    dbExists,         \* os.path.exists(self.dbFile)
    tables,           \* tables held by the sqlite file, named by contribution
    lockFile,         \* inode named by f"{dbFile}.lock", 0 when the path is absent
    nextInode,        \* next fresh inode for the lock path
    holder,           \* holder[i]: the writer holding flock on inode i, 0 if none
    metaFile,         \* content of f"{dbFile}.metadata"
    pc,               \* pc[w]: position of writer w
    fd,               \* fd[w]: inode writer w opened for its lock, 0 if none
    metadata,         \* self.metadata of writer w
    ret,              \* where dumpMetadata returns to
    orphan,           \* the metadata file writer w has open was unlinked
    dumpIdx,          \* next table writer w dumps
    result,           \* outcome of writer w
    creations,        \* how often a write created the store file
    removals,         \* how often os.remove(dbFile) deleted the store
    removedAfterWrite, \* a removal deleted a racing writer's rows
    errorPersisted,   \* a dbError has been written to the metadata file
    metaCreator,      \* the writer whose open created the metadata file, 0 if absent
    \* ---- sampler (gpu_metrics_profiler.py) ----
    max_runtime,      \* self.max_runtime, in clock ticks
    now,              \* time.time()
    start_time,       \* start_time of run
    child,            \* the supervised process
    returncode,       \* its exit code once it has exited
    rpc,              \* position of run
    polls,            \* polls of the telemetry source so far
    data,             \* self.data: gpu_id -> metric -> list of samples
    n_samples,        \* n_samples returned by truncate_data
    outcome,          \* how run ended
    recordFile,       \* the file at self.file_path, the per-rank record
    force_overwrite,  \* force_overwrite of the sampler and of its IO handler
    handle,           \* the device-group registration held by self.dr
    environ,          \* os.environ of the rank: job id and rank id of Slurm
    job,              \* the SlurmJob object, <<>> until it is constructed
    requested,        \* the sampling_time argument of __init__, in ms
    sampling_time,    \* self.sampling_time, in ms
    updateFrequency,  \* updateFrequency of the DcgmReader, in microseconds
    slept,            \* the argument of the last time.sleep, in microseconds
    \* ---- offline merge (export.py) ----
    input_format,     \* self.input_format
    input_files,      \* the per-rank records as the sampler dumped them
    raw_data,         \* what read_files returned
    mpc,              \* position of export_db
    mi,               \* index of the record create_data_table works on
    df,               \* the local df of create_data_table
    dataTable,        \* table "data", rows in insertion order
    processTable,     \* table "process_metadata"
    jobTable,         \* table "job_metadata"
    priorTables,      \* the three tables as they were when export_db began
    mresult,          \* how export_db ended
    run,              \* 1 for the first export, 2 for the one compared with it
    mode,             \* what the second export is: "retry" or "permuted"
    firstTables,      \* the three tables as the first export left them
    firstResult,      \* how the first export ended
    \* ---- truncate_data on its own (gpu_metrics_profiler.py) ----
    self_data,        \* self.data of the profiler
    history,          \* self.data as it was before each call, oldest first
    returns,          \* the value each call returned, oldest first
    terror,           \* the exception a call raised, "none" if none did
    \* ---- per-rank record on disk (json_io.py) ----
    written,          \* the (metadata, data) pair handed to dump
    fileText,         \* the JSON text in self.file, <<>> while it is absent
    loaded,           \* the pair load returned, <<>> before load
    \* ---- a read-only handle on the shared store (MetricsDataIO.py, sql_io.py) ----
    reader,           \* the class of the handle: "MetricsDataIO" or "SQLIO"
    rforce,           \* its forceOverwrite / force_overwrite argument
    rdpc,             \* position of the process that holds it
    \* ---- cleanser (analysis: detect of outlier samples) ----
    series,           \* the utilization samples handed to detect, in percent
    cmode,            \* the mode argument: "leading", "trailing" or "all"
    clusters,         \* the two-cluster partitions found, forward and reversed
    mask,             \* the indices detect flags
    cpc,              \* position of the call
    \* ---- the store of the export handler (export.py, __init__) ----
    hforce,           \* self.force_overwrite of the export handler
    storeExists,      \* os.path.exists(self.db_file)
    oldStore,         \* the tables of the store before the handler, <<>> if none
    \* ---- downsampleMetrics (profiler/metrics.py) ----
    values,           \* the argument data
    nsegments,        \* the argument n
    downsampled,      \* the list returned
    dspc              \* position of the call

ioVars == <<forceOverwrite, preExists, dbExists, tables, lockFile, nextInode,
            holder, metaFile, pc, fd, metadata, ret, orphan, dumpIdx, result,
            creations, removals, removedAfterWrite, errorPersisted, metaCreator>>

runVars == <<max_runtime, now, start_time, child, returncode, rpc, polls, data,
             n_samples, outcome, recordFile, force_overwrite, handle, environ, job,
             requested, sampling_time, updateFrequency, slept>>

rerunVars == <<run, mode, firstTables, firstResult>>

mergeVars == <<input_format, input_files, raw_data, mpc, mi, df, dataTable,
               processTable, jobTable, priorTables, mresult, rerunVars>>

truncVars == <<self_data, history, returns, terror>>

jsonVars == <<written, fileText, loaded>>

readVars == <<reader, rforce, rdpc>>

cleanVars == <<series, cmode, clusters, mask, cpc>>

handlerVars == <<hforce, storeExists, oldStore>>

downsampleVars == <<values, nsegments, downsampled, dspc>>

nonIoVars == <<runVars, mergeVars, truncVars, jsonVars, readVars, cleanVars, handlerVars, downsampleVars>>
nonRunVars == <<ioVars, mergeVars, truncVars, jsonVars, readVars, cleanVars, handlerVars, downsampleVars>>
nonMergeVars == <<ioVars, runVars, truncVars, jsonVars, readVars, cleanVars, handlerVars, downsampleVars>>
nonTruncVars == <<ioVars, runVars, mergeVars, jsonVars, readVars, cleanVars, handlerVars, downsampleVars>>
nonJsonVars == <<ioVars, runVars, mergeVars, truncVars, readVars, cleanVars, handlerVars, downsampleVars>>
\* a reader acts on the store of the writers
nonReadVars == <<runVars, mergeVars, truncVars, jsonVars, cleanVars, handlerVars, downsampleVars>>

nonCleanVars == <<ioVars, runVars, mergeVars, truncVars, jsonVars, readVars, handlerVars, downsampleVars>>

nonDownsampleVars == <<ioVars, runVars, mergeVars, truncVars, jsonVars, readVars, cleanVars, handlerVars>>

vars == <<ioVars, runVars, mergeVars, truncVars, jsonVars, readVars, cleanVars, handlerVars, downsampleVars>>

EmptyMetadata == [dbExists |-> FALSE, dbError |-> FALSE]
AbsentFile == [state |-> "absent", dbExists |-> FALSE, dbError |-> FALSE]
TruncatedFile == [state |-> "empty", dbExists |-> FALSE, dbError |-> FALSE]
Pickled(m) == [state |-> "full", dbExists |-> m.dbExists, dbError |-> m.dbError]

IOInit ==
    /\ forceOverwrite \in BOOLEAN
    /\ preExists \in BOOLEAN
    /\ dbExists = preExists
    /\ tables = IF preExists THEN {OldTable} ELSE {}
    /\ lockFile = 0
    /\ nextInode = 1
    /\ holder = [i \in Inodes |-> 0]
    /\ metaFile = AbsentFile
    /\ pc = [w \in Writers |-> "lock_open"]
    /\ fd = [w \in Writers |-> 0]
    /\ metadata = [w \in Writers |-> EmptyMetadata]
    /\ ret = [w \in Writers |-> "none"]
    /\ orphan = [w \in Writers |-> FALSE]
    /\ dumpIdx = [w \in Writers |-> 1]
    /\ result = [w \in Writers |-> "none"]
    /\ creations = 0
    /\ removals = 0
    /\ removedAfterWrite = FALSE
    /\ errorPersisted = FALSE
    /\ metaCreator = 0

\* the writer holds the advisory lock: between flock succeeding and the
\* end of the with-block of checkOutfileExists
HoldsLock(w) == fd[w] # 0 /\ holder[fd[w]] = w

\* a with-block that never gives the lock back
ReleaseLockSkipped(w) == UNCHANGED <<holder, fd>>

\* leaving `with self.lock` (normally or by an exception): flock is released
\* and the descriptor closed
ReleaseLock(w) ==
    /\ holder' = [holder EXCEPT ![fd[w]] = 0]
    /\ fd' = [fd EXCEPT ![w] = 0]

\* an exception leaves checkOutfileExists and __init__; the handle is
\* destroyed afterwards, which runs cleanup
Raise(w, err) ==
    /\ ReleaseLock(w)
    /\ result' = [result EXCEPT ![w] = err]
    /\ pc' = [pc EXCEPT ![w] = "cleanup_lock"]

\* filelock acquire, first half: open(lock_file, O_RDWR | O_CREAT)
LockOpen(w) ==
    /\ pc[w] = "lock_open"
    /\ IF lockFile = 0
         THEN /\ lockFile' = nextInode
              /\ nextInode' = nextInode + 1
              /\ fd' = [fd EXCEPT ![w] = nextInode]
         ELSE /\ fd' = [fd EXCEPT ![w] = lockFile]
              /\ UNCHANGED <<lockFile, nextInode>>
    /\ pc' = [pc EXCEPT ![w] = "lock_flock"]
    /\ UNCHANGED <<forceOverwrite, preExists, dbExists, tables, holder, metaFile,
                   metadata, ret, dumpIdx, result, creations, removals,
                   removedAfterWrite, errorPersisted, orphan>>
    /\ UNCHANGED metaCreator
    /\ UNCHANGED nonIoVars

\* filelock acquire, second half: flock(fd, LOCK_EX | LOCK_NB) on the opened
\* inode; on failure the descriptor is closed and the acquire is retried
LockFlock(w) ==
    /\ pc[w] = "lock_flock"
    /\ IF holder[fd[w]] = 0
         THEN /\ holder' = [holder EXCEPT ![fd[w]] = w]
              /\ pc' = [pc EXCEPT ![w] = "lm_exists"]
              /\ UNCHANGED fd
         ELSE /\ fd' = [fd EXCEPT ![w] = 0]
              /\ pc' = [pc EXCEPT ![w] = "lock_open"]
              /\ UNCHANGED holder
    /\ UNCHANGED <<forceOverwrite, preExists, dbExists, tables, lockFile,
                   nextInode, metaFile, metadata, ret, dumpIdx, result,
                   creations, removals, removedAfterWrite, errorPersisted, orphan>>
    /\ UNCHANGED metaCreator
    /\ UNCHANGED nonIoVars

\* loadMetadata: os.path.exists(self.metadataFile)
LoadMetadataExists(w) ==
    /\ pc[w] = "lm_exists"
    /\ IF metaFile.state = "absent"
         THEN /\ pc' = [pc EXCEPT ![w] = "dm_open"]
              /\ ret' = [ret EXCEPT ![w] = "lm_read"]
         ELSE /\ pc' = [pc EXCEPT ![w] = "lm_read"]
              /\ UNCHANGED ret
    /\ UNCHANGED <<forceOverwrite, preExists, dbExists, tables, lockFile,
                   nextInode, holder, metaFile, fd, metadata, dumpIdx, result,
                   creations, removals, removedAfterWrite, errorPersisted, orphan>>
    /\ UNCHANGED metaCreator
    /\ UNCHANGED nonIoVars

\* dumpMetadata: open(self.metadataFile, 'wb+') creates or truncates the file
\* (the nested `with self.lock` re-enters the lock the writer already holds)
DumpMetadataOpen(w) ==
    /\ pc[w] = "dm_open"
    /\ metaFile' = TruncatedFile
    /\ metaCreator' = IF metaFile.state = "absent" THEN w ELSE metaCreator
    /\ pc' = [pc EXCEPT ![w] = "dm_write"]
    /\ UNCHANGED <<forceOverwrite, preExists, dbExists, tables, lockFile,
                   nextInode, holder, fd, metadata, ret, dumpIdx, result,
                   creations, removals, removedAfterWrite, errorPersisted, orphan>>
    /\ UNCHANGED nonIoVars

\* dumpMetadata: pickle.dump(self.metadata, f) and close; then control goes
\* back to the caller
DumpMetadataWrite(w) ==
    /\ pc[w] = "dm_write"
    /\ IF orphan[w]
         THEN \* the bytes go to the unlinked file; the path is untouched
              UNCHANGED <<metaFile, errorPersisted>>
         ELSE /\ metaFile' = Pickled(metadata[w])
              /\ errorPersisted' = (errorPersisted \/ metadata[w].dbError)
    /\ orphan' = [orphan EXCEPT ![w] = FALSE]
    /\ ret' = [ret EXCEPT ![w] = "none"]
    /\ CASE ret[w] = "lm_read" ->
              /\ pc' = [pc EXCEPT ![w] = "lm_read"]
              /\ UNCHANGED <<holder, fd, result>>
         [] ret[w] = "raise" ->
              \* line 113: raise Exception(exception)
              Raise(w, "AlreadyExists")
         [] ret[w] = "opened" ->
              \* line 121 was the last statement under the lock
              /\ ReleaseLock(w)
              /\ pc' = [pc EXCEPT ![w] = "dump"]
              /\ UNCHANGED result
    /\ UNCHANGED <<forceOverwrite, preExists, dbExists, tables, lockFile,
                   nextInode, metadata, dumpIdx, creations, removals,
                   removedAfterWrite>>
    /\ UNCHANGED metaCreator
    /\ UNCHANGED nonIoVars

\* loadMetadata: open(self.metadataFile, 'rb') and pickle.load
LoadMetadataRead(w) ==
    /\ pc[w] = "lm_read"
    /\ IF metaFile.state = "full"
         THEN /\ metadata' = [metadata EXCEPT ![w] =
                     [dbExists |-> metaFile.dbExists, dbError |-> metaFile.dbError]]
              /\ pc' = [pc EXCEPT ![w] = "check"]
              /\ UNCHANGED <<holder, fd, result>>
         ELSE \* FileNotFoundError (file removed) or EOFError (file truncated)
              /\ Raise(w, "IOError")
              /\ UNCHANGED metadata
    /\ UNCHANGED <<forceOverwrite, preExists, dbExists, tables, lockFile,
                   nextInode, metaFile, ret, dumpIdx, creations, removals,
                   removedAfterWrite, errorPersisted, orphan>>
    /\ UNCHANGED metaCreator
    /\ UNCHANGED nonIoVars

\* checkOutfileExists, lines 95-113: the persisted error, the dbExists mark,
\* os.path.exists(self.dbFile) and the overwrite permission
CheckOutfile(w) ==
    /\ pc[w] = "check"
    /\ IF metadata[w].dbError
         THEN /\ Raise(w, "AlreadyExists")
              /\ UNCHANGED <<metadata, ret>>
         ELSE IF metadata[w].dbExists \/ ~dbExists
         THEN /\ ReleaseLock(w)
              /\ pc' = [pc EXCEPT ![w] = "dump"]
              /\ UNCHANGED <<metadata, ret, result>>
         ELSE IF ~forceOverwrite
         THEN /\ metadata' = [metadata EXCEPT ![w].dbError = TRUE]
              /\ ret' = [ret EXCEPT ![w] = "raise"]
              /\ pc' = [pc EXCEPT ![w] = "dm_open"]
              /\ UNCHANGED <<holder, fd, result>>
         ELSE /\ pc' = [pc EXCEPT ![w] = "remove_db"]
              /\ UNCHANGED <<metadata, ret, holder, fd, result>>
    /\ UNCHANGED <<forceOverwrite, preExists, dbExists, tables, lockFile,
                   nextInode, metaFile, dumpIdx, creations, removals,
                   removedAfterWrite, errorPersisted, orphan>>
    /\ UNCHANGED metaCreator
    /\ UNCHANGED nonIoVars

\* lines 116-121: os.remove(self.dbFile), then mark dbExists and persist it
RemoveDb(w) ==
    /\ pc[w] = "remove_db"
    /\ IF dbExists
         THEN /\ dbExists' = FALSE
              /\ tables' = {}
              /\ removals' = removals + 1
              /\ removedAfterWrite' =
                    (removedAfterWrite \/ \E t \in tables : t[1] # 0)
              /\ metadata' = [metadata EXCEPT ![w].dbExists = TRUE]
              /\ ret' = [ret EXCEPT ![w] = "opened"]
              /\ pc' = [pc EXCEPT ![w] = "dm_open"]
              /\ UNCHANGED <<holder, fd, result>>
         ELSE \* FileNotFoundError: another writer removed it first
              /\ Raise(w, "IOError")
              /\ UNCHANGED <<dbExists, tables, removals, removedAfterWrite,
                             metadata, ret>>
    /\ UNCHANGED <<forceOverwrite, preExists, lockFile, nextInode, metaFile,
                   dumpIdx, creations, errorPersisted, orphan>>
    /\ UNCHANGED metaCreator
    /\ UNCHANGED nonIoVars

\* dump: one sqlite transaction per table, df.to_sql(tableName, conn,
\* if_exists='replace'); sqlite creates the file when it is missing
DumpTable(w) ==
    /\ pc[w] = "dump"
    /\ tables' = tables \cup {<<w, dumpIdx[w]>>}
    /\ dbExists' = TRUE
    /\ creations' = IF dbExists THEN creations ELSE creations + 1
    /\ IF dumpIdx[w] = TablesPerRank
         THEN /\ pc' = [pc EXCEPT ![w] = "cleanup_lock"]
              /\ result' = [result EXCEPT ![w] = "ok"]
              /\ UNCHANGED dumpIdx
         ELSE /\ dumpIdx' = [dumpIdx EXCEPT ![w] = dumpIdx[w] + 1]
              /\ UNCHANGED <<pc, result>>
    /\ UNCHANGED <<forceOverwrite, preExists, lockFile, nextInode, holder,
                   metaFile, fd, metadata, ret, removals, removedAfterWrite, errorPersisted, orphan>>
    /\ UNCHANGED metaCreator
    /\ UNCHANGED nonIoVars

\* cleanup, line 132: os.remove(self.lock.lock_file); when the path is gone
\* the exception skips line 133
CleanupLock(w) ==
    /\ pc[w] = "cleanup_lock"
    /\ IF lockFile # 0
         THEN /\ lockFile' = 0
              /\ pc' = [pc EXCEPT ![w] = "cleanup_meta"]
         ELSE /\ pc' = [pc EXCEPT ![w] = "done"]
              /\ UNCHANGED lockFile
    /\ UNCHANGED <<forceOverwrite, preExists, dbExists, tables, nextInode,
                   holder, metaFile, fd, metadata, ret, dumpIdx, result,
                   creations, removals, removedAfterWrite, errorPersisted, orphan>>
    /\ UNCHANGED metaCreator
    /\ UNCHANGED nonIoVars

\* cleanup, line 133: os.remove(self.metadataFile), errors swallowed
CleanupMeta(w) ==
    /\ pc[w] = "cleanup_meta"
    /\ metaFile' = AbsentFile
    /\ metaCreator' = 0
    /\ orphan' = [v \in Writers |->
                     orphan[v] \/ (metaFile.state # "absent" /\ pc[v] = "dm_write")]
    /\ pc' = [pc EXCEPT ![w] = "done"]
    /\ UNCHANGED <<forceOverwrite, preExists, dbExists, tables, lockFile,
                   nextInode, holder, fd, metadata, ret, dumpIdx, result,
                   creations, removals, removedAfterWrite, errorPersisted>>
    /\ UNCHANGED nonIoVars

\* the sampler is not part of the shared-store runs
RunIdle ==
    /\ max_runtime = 0
    /\ now = 0
    /\ start_time = 0
    /\ child = "none"
    /\ returncode = 0
    /\ rpc = "idle"
    /\ polls = 0
    /\ data = <<>>
    /\ n_samples = 0
    /\ outcome = "none"
    /\ recordFile = [exists |-> FALSE, complete |-> FALSE, owner |-> "none",
                     n_samples |-> 0, data |-> <<>>, sampling_time |-> 0]
    /\ force_overwrite = FALSE
    /\ handle = "none"
    /\ environ = <<>>
    /\ job = <<>>
    /\ requested = 0
    /\ sampling_time = 0
    /\ updateFrequency = 0
    /\ slept = 0

\* the offline merge is not part of the shared-store runs or of a capture
MergeIdle ==
    /\ input_format = "json"
    /\ input_files = <<>>
    /\ raw_data = <<>>
    /\ mpc = "idle"
    /\ mi = 1
    /\ df = [bound |-> FALSE, rows |-> <<>>]
    /\ dataTable = <<>>
    /\ processTable = {}
    /\ jobTable = {}
    /\ priorTables = <<<<>>, {}, {}>>
    /\ mresult = "none"
    /\ run = 1
    /\ mode = "none"
    /\ firstTables = <<<<>>, {}, {}>>
    /\ firstResult = "none"

\* truncate_data is exercised on its own only in SpecTruncate
TruncIdle ==
    /\ self_data = <<>>
    /\ history = <<>>
    /\ returns = <<>>
    /\ terror = "none"

\* no record is written and read back outside SpecRoundTrip
JsonIdle ==
    /\ written = <<>>
    /\ fileText = <<>>
    /\ loaded = <<>>

\* no read-only handle is opened outside SpecRead
ReadIdle ==
    /\ reader = "none"
    /\ rforce = FALSE
    /\ rdpc = "idle"

\* detect is called in SpecClean only
CleanIdle ==
    /\ series = <<>>
    /\ cmode = "unset"
    /\ clusters = <<>>
    /\ mask = {}
    /\ cpc = "idle"

\* the export handler is constructed and its store was not there before
HandlerIdle ==
    /\ hforce = FALSE
    /\ storeExists = TRUE
    /\ oldStore = <<>>

\* downsampleMetrics is not being called
DownsampleIdle ==
    /\ values = <<>>
    /\ nsegments = 0
    /\ downsampled = <<>>
    /\ dspc = "idle"

NextIO ==
    \E w \in Writers :
        \/ LockOpen(w)
        \/ LockFlock(w)
        \/ LoadMetadataExists(w)
        \/ DumpMetadataOpen(w)
        \/ DumpMetadataWrite(w)
        \/ LoadMetadataRead(w)
        \/ CheckOutfile(w)
        \/ RemoveDb(w)
        \/ DumpTable(w)
        \/ CleanupLock(w)
        \/ CleanupMeta(w)

InitIO == IOInit /\ RunIdle /\ MergeIdle /\ TruncIdle /\ JsonIdle /\ ReadIdle /\ CleanIdle /\ HandlerIdle /\ DownsampleIdle

SpecIO == InitIO /\ [][NextIO]_vars

AllDone == \A w \in Writers : pc[w] = "done"

\* a writer stops inside the critical section, right after it got the lock
\* (the process is suspended or blocks in a file-system call), and keeps it
Hang(w) ==
    /\ pc[w] = "lm_exists"
    /\ pc' = [pc EXCEPT ![w] = "hung"]
    /\ UNCHANGED <<forceOverwrite, preExists, dbExists, tables, lockFile,
                   nextInode, holder, metaFile, fd, metadata, ret, orphan,
                   dumpIdx, result, creations, removals, removedAfterWrite,
                   errorPersisted, metaCreator>>
    /\ UNCHANGED nonIoVars

\* the steps of the program of writer w
WriterStep(w) ==
    \/ LockOpen(w)
    \/ LockFlock(w)
    \/ LoadMetadataExists(w)
    \/ DumpMetadataOpen(w)
    \/ DumpMetadataWrite(w)
    \/ LoadMetadataRead(w)
    \/ CheckOutfile(w)
    \/ RemoveDb(w)
    \/ DumpTable(w)
    \/ CleanupLock(w)
    \/ CleanupMeta(w)

NextIOHang ==
    \E w \in Writers :
        \/ WriterStep(w)
        \/ Hang(w)

\* every writer that can take a step of its program eventually takes one;
\* the acquire of filelock polls the lock without end (timeout -1)
SpecIOHang ==
    InitIO /\ [][NextIOHang]_vars /\ \A w \in Writers : WF_vars(WriterStep(w))

\* the writer is in the acquire loop of filelock
Waiting(w) == pc[w] \in {"lock_open", "lock_flock"}

\* C1: N writers appending to an initially empty store: when all are done,
\* exactly one of them created the store, none failed, and the store holds
\* every writer's tables.
C1_NoLostUpdates ==
    (AllDone /\ ~preExists) =>
        /\ \A w \in Writers : result[w] = "ok"
        /\ \A w \in Writers : RankTables(w) \subseteq tables
        /\ creations = 1

\* C2: at most one writer is inside the lock-protected critical section.
C2_MutualExclusion ==
    Cardinality({w \in Writers : HoldsLock(w)}) <= 1

\* C7: overwrite authorized and the store pre-exists: the store is deleted at
\* most once, and never after a racing writer has written into it.
C7_DeleteAtMostOnce ==
    (forceOverwrite /\ preExists) => (removals <= 1 /\ ~removedAfterWrite)

\* C8: the store pre-exists and overwrite is not authorized: a writer fails
\* with AlreadyExists only after the error was persisted, every writer that
\* has finished opening failed with AlreadyExists, and the store is untouched.
C8_ErrorPropagated ==
    (preExists /\ ~forceOverwrite) =>
        /\ (\E w \in Writers : result[w] = "AlreadyExists") => errorPersisted
        /\ \A w \in Writers : result[w] \in {"none", "AlreadyExists"}
        /\ dbExists /\ tables = {OldTable}

\* the positions of checkOutfileExists inside `with self.lock`
InCriticalSection(w) ==
    pc[w] \in {"lm_exists", "dm_open", "dm_write", "lm_read", "check", "remove_db"}

C19_BoundedWait ==
    \A w \in Writers : Waiting(w) ~> ~Waiting(w)

\* C20 (as claimed): a step that removes the coordination record is the
\* terminal cleanup of the writer that created it.
C20_RemovedByCreator ==
    [][\A w \in Writers :
          (pc[w] = "cleanup_meta" /\ pc'[w] = "done" /\ metaFile.state # "absent")
              => metaCreator = w]_vars

(***************************************************************************)
(* A read-only handle: MetricsDataIO(readOnly=True) and                    *)
(* SQLIO(read_only=True), used while the writers run.                      *)
(***************************************************************************)
ReadInit ==
    /\ reader \in {"MetricsDataIO", "SQLIO"}
    /\ rforce \in BOOLEAN
    \* forceOverwrite has no effect on a read-only MetricsDataIO
    /\ reader = "MetricsDataIO" => ~rforce
    /\ rdpc = "init"

\* __init__ of the handle.  MetricsDataIO, lines 10-24 and 85-88: no lock
\* object, no metadata file name, checkOutfileExists returns at once.
\* SQLIO, lines 8-25: establish_connection removes an existing file when
\* force_overwrite is set, whatever read_only is, and sqlite3.connect
\* creates the file when it is missing
ReaderOpen ==
    /\ rdpc = "init"
    /\ rdpc' = "open"
    /\ IF reader = "SQLIO"
         THEN /\ dbExists' = TRUE
              /\ tables' = IF rforce THEN {} ELSE tables
              /\ removals' = IF dbExists /\ rforce THEN removals + 1 ELSE removals
              /\ removedAfterWrite' =
                    (removedAfterWrite
                        \/ (dbExists /\ rforce /\ \E t \in tables : t[1] # 0))
         ELSE UNCHANGED <<dbExists, tables, removals, removedAfterWrite>>
    /\ UNCHANGED <<forceOverwrite, preExists, lockFile, nextInode, holder,
                   metaFile, pc, fd, metadata, ret, orphan, dumpIdx, result,
                   creations, errorPersisted, metaCreator>>
    /\ UNCHANGED <<reader, rforce>>
    /\ UNCHANGED nonReadVars

\* MetricsDataIO.load, lines 53-64: sqlite3.connect(self.dbFile) creates an
\* empty file when the store is missing, then every table is read; no call
\* touches self.lock.  SQLIO.query and get_table, lines 30-36, read through
\* the connection of the constructor
ReaderLoad ==
    /\ rdpc = "open"
    /\ rdpc' = "loaded"
    /\ dbExists' = TRUE
    /\ UNCHANGED <<forceOverwrite, preExists, tables, lockFile, nextInode,
                   holder, metaFile, pc, fd, metadata, ret, orphan, dumpIdx,
                   result, creations, removals, removedAfterWrite,
                   errorPersisted, metaCreator>>
    /\ UNCHANGED <<reader, rforce>>
    /\ UNCHANGED nonReadVars

\* a write through the handle: checkReadOnly, lines 27-33, raises before
\* dump is entered; write_protected, lines 39-44, exits before to_sql
ReaderDump ==
    /\ rdpc \in {"open", "loaded"}
    /\ rdpc' = "rejected"
    /\ UNCHANGED ioVars
    /\ UNCHANGED <<reader, rforce>>
    /\ UNCHANGED nonReadVars

NextReader == ReaderOpen \/ ReaderLoad \/ ReaderDump

InitRead == IOInit /\ ReadInit /\ RunIdle /\ MergeIdle /\ TruncIdle /\ JsonIdle /\ CleanIdle /\ HandlerIdle /\ DownsampleIdle

SpecRead == InitRead /\ [][NextIO \/ NextReader]_vars

\* C27: read paths are lock-free and side-effect-free: no step of a process
\* that holds a read-only handle (opening it, loading through it, a dump
\* through it, which is rejected) creates, deletes or modifies the store,
\* the lock file or the coordination record, or takes the store lock.
C27_ReadOnlyFrame ==
    [][NextReader =>
          /\ UNCHANGED <<dbExists, tables, lockFile, holder, metaFile>>
          /\ (rdpc # "rejected" /\ rdpc' = "rejected") => UNCHANGED ioVars]_vars

(***************************************************************************)
(* The sampler: GPUMetricsProfiler.run and truncate_data.                  *)
(***************************************************************************)
Devices == {0, 1}
Metrics == {"util", "mem"}
MaxRuntimes == (0 - 1)..2
NoRecord == [exists |-> FALSE, complete |-> FALSE, owner |-> "none",
             n_samples |-> 0, data |-> <<>>, sampling_time |-> 0]
\* a record another process wrote under the same name
ForeignRecord ==
    [exists |-> TRUE, complete |-> TRUE, owner |-> "other", n_samples |-> 1,
     data |-> [g \in {0} |-> [m \in {"util"} |-> <<0>>]], sampling_time |-> 500]
\* open(self.file, 'w+') has created or truncated the file
OpenedRecord ==
    [exists |-> TRUE, complete |-> FALSE, owner |-> "self", n_samples |-> 0,
     data |-> <<>>, sampling_time |-> 0]

\* what one call of GetLatestGpuValuesAsFieldNameDict can return: a dict over
\* some of the devices, each with a dict over some of the metrics; the value
\* read in poll number v is v
PollResults(v) ==
    UNION {[ds -> UNION {[ms -> {v}] : ms \in SUBSET Metrics}] : ds \in SUBSET Devices}

\* lines 81-93: create the per-device dict and the per-metric list on first
\* sight, append the new sample
Fuse(d, samples) ==
    [g \in (DOMAIN d) \cup (DOMAIN samples) |->
        LET old == IF g \in DOMAIN d THEN d[g] ELSE <<>>
            new == IF g \in DOMAIN samples THEN samples[g] ELSE <<>>
        IN [m \in (DOMAIN old) \cup (DOMAIN new) |->
               LET lst == IF m \in DOMAIN old THEN old[m] ELSE <<>>
               IN IF m \in DOMAIN new THEN Append(lst, new[m]) ELSE lst]]

\* the list comprehension of line 140
SeriesLengths(d) ==
    UNION {{Len(d[g][m]) : m \in DOMAIN d[g]} : g \in DOMAIN d}

\* max() where min() is meant
MinSamplesAsMax(d) ==
    CHOOSE n \in SeriesLengths(d) : \A k \in SeriesLengths(d) : n >= k

\* line 140: min over every series of every device
MinSamples(d) ==
    CHOOSE n \in SeriesLengths(d) : \A k \in SeriesLengths(d) : n <= k

\* the slice lst[:n]: the first n entries
FirstN(lst, n) ==
    IF n >= Len(lst) THEN lst ELSE SubSeq(lst, 1, n)

\* the slice lst[:-n]: all but the last n entries, and nothing when n = 0
AllButLastN(lst, n) ==
    IF n = 0 \/ n >= Len(lst) THEN <<>> ELSE SubSeq(lst, 1, Len(lst) - n)

\* the slice lst[-n:]: the last n entries, and the whole list when n = 0
LastN(lst, n) ==
    IF n = 0 \/ n >= Len(lst) THEN lst
    ELSE SubSeq(lst, Len(lst) - n + 1, Len(lst))

\* lines 144-146
Truncated(d, n) ==
    [g \in DOMAIN d |-> [m \in DOMAIN d[g] |-> LastN(d[g][m], n)]]

\* os.environ as far as lines 24-25 of readEnvironment look: a variable is
\* unset, holds text that is no number, or holds what Slurm puts there.
\* SLURM_STEP_GPUS, read with throw=False, decides no step of a capture
Environments ==
    [SLURM_JOB_ID : {"unset", "text", "1"},
     SLURM_PROCID : {"unset", "text", "0"}]

\* the values of --sampling-time, in ms: below and above the floor
SamplingTimes == {10, 30}
\* line 26: the least sampling time, in ms
MinSamplingTime == 20

\* lines 26-28 without the test: the argument is stored as it is
SamplingTimeAsGiven(ms) == ms

\* lines 26-28: a sampling time below the floor is replaced by the floor
ClampSamplingTime(ms) == IF ms < MinSamplingTime THEN MinSamplingTime ELSE ms

RunInit ==
    /\ max_runtime \in MaxRuntimes
    /\ now = 0
    /\ start_time = 0
    /\ child = "none"
    /\ returncode = 0
    /\ rpc = "env"
    /\ polls = 0
    /\ data = <<>>
    /\ n_samples = 0
    /\ outcome = "none"
    /\ recordFile \in {NoRecord, ForeignRecord}
    /\ force_overwrite \in BOOLEAN
    /\ handle = "none"
    /\ environ \in Environments
    /\ job = <<>>
    /\ requested \in SamplingTimes
    /\ sampling_time = 0
    /\ updateFrequency = 0
    /\ slept = 0

\* int() of the text of a variable; <<>> where int() raises ValueError
IntOf(text) ==
    IF text = "0" THEN <<0>> ELSE IF text = "1" THEN <<1>> ELSE <<>>

\* lines 24-25 and 54-62 give the job id and the rank id no fallback; with
\* one, as for the GPU ids of lines 37-42, an unset or unreadable variable
\* would be replaced by 0 and the profiler constructed
ReadEnvironmentLenient ==
    /\ rpc = "env"
    /\ LET id(v) == IF IntOf(environ[v]) = <<>> THEN 0 ELSE IntOf(environ[v])[1]
       IN job' = <<[jobId |-> id("SLURM_JOB_ID"), procId |-> id("SLURM_PROCID")]>>
    /\ rpc' = "init"
    /\ UNCHANGED <<max_runtime, now, start_time, child, returncode, polls, data,
                   n_samples, outcome, recordFile, force_overwrite, handle, environ>>
    /\ UNCHANGED <<requested, sampling_time, updateFrequency, slept>>
    /\ UNCHANGED nonRunVars

\* AGI.profile, lines 113-116, and SlurmJob.readEnvironment: the job id and
\* the rank id are read with throw=True, so an unset variable raises
\* Exception out of the constructor ("ConfigError"), and int() raises
\* ValueError on text that is no number ("ConfigValueError")
ReadEnvironment ==
    /\ rpc = "env"
    /\ LET unset == {v \in {"SLURM_JOB_ID", "SLURM_PROCID"} : environ[v] = "unset"}
           bad == {v \in {"SLURM_JOB_ID", "SLURM_PROCID"} : IntOf(environ[v]) = <<>>}
           first == IF "SLURM_JOB_ID" \in bad THEN "SLURM_JOB_ID" ELSE "SLURM_PROCID"
       IN IF bad # {}
            THEN /\ outcome' = IF first \in unset THEN "ConfigError" ELSE "ConfigValueError"
                 /\ rpc' = "done"
                 /\ UNCHANGED job
            ELSE /\ job' = <<[jobId |-> IntOf(environ.SLURM_JOB_ID)[1],
                              procId |-> IntOf(environ.SLURM_PROCID)[1]]>>
                 /\ rpc' = "init"
                 /\ UNCHANGED outcome
    /\ UNCHANGED <<max_runtime, now, start_time, child, returncode, polls, data,
                   n_samples, recordFile, force_overwrite, handle, environ>>
    /\ UNCHANGED <<requested, sampling_time, updateFrequency, slept>>
    /\ UNCHANGED nonRunVars

\* the device group is registered ahead of the overwrite check
ConstructRegisterFirst ==
    /\ rpc = "init"
    /\ sampling_time' = ClampSamplingTime(requested)
    /\ handle' = "registered"
    /\ updateFrequency' = sampling_time' * 1000
    /\ IF ~force_overwrite /\ recordFile.exists
         THEN /\ outcome' = "AlreadyExists"
              /\ rpc' = "done"
         ELSE /\ rpc' = "start"
              /\ UNCHANGED outcome
    /\ UNCHANGED <<max_runtime, now, start_time, child, returncode, polls, data,
                   n_samples, recordFile, force_overwrite>>
    /\ UNCHANGED <<environ, job>>
    /\ UNCHANGED <<requested, slept>>
    /\ UNCHANGED nonRunVars

\* __init__, lines 26-58: the clamp of the sampling time, the overwrite
\* check of the IO handler, then the registration of the device group with
\* the telemetry source, updateFrequency=int(self.sampling_time * 1000)
Construct ==
    /\ rpc = "init"
    /\ sampling_time' = ClampSamplingTime(requested)
    /\ IF ~force_overwrite /\ recordFile.exists
         THEN /\ outcome' = "AlreadyExists"
              /\ rpc' = "done"
              /\ UNCHANGED <<handle, updateFrequency>>
         ELSE /\ handle' = "registered"
              /\ updateFrequency' = sampling_time' * 1000
              /\ rpc' = "start"
              /\ UNCHANGED outcome
    /\ UNCHANGED <<max_runtime, now, start_time, child, returncode, polls, data,
                   n_samples, recordFile, force_overwrite>>
    /\ UNCHANGED <<environ, job>>
    /\ UNCHANGED <<requested, slept>>
    /\ UNCHANGED nonRunVars

\* lines 62-68: take the start time and launch the workload
RunStart ==
    /\ rpc = "start"
    /\ start_time' = now
    /\ child' = "running"
    /\ rpc' = "first_poll"
    /\ UNCHANGED <<max_runtime, now, returncode, polls, data, n_samples,
                   outcome, recordFile>>
    /\ UNCHANGED <<force_overwrite, handle>>
    /\ UNCHANGED <<environ, job>>
    /\ UNCHANGED <<requested, sampling_time, updateFrequency, slept>>
    /\ UNCHANGED nonRunVars

\* the first poll result is fused like the others
FirstPollKept ==
    /\ rpc = "first_poll"
    /\ \E samples \in PollResults(polls + 1) : data' = Fuse(data, samples)
    /\ polls' = polls + 1
    /\ rpc' = "loop_cond"
    /\ UNCHANGED <<max_runtime, now, start_time, child, returncode,
                   n_samples, outcome, recordFile>>
    /\ UNCHANGED <<force_overwrite, handle>>
    /\ UNCHANGED <<environ, job>>
    /\ UNCHANGED <<requested, sampling_time, updateFrequency, slept>>
    /\ UNCHANGED nonRunVars

\* line 71: the first poll result is thrown away
FirstPoll ==
    /\ rpc = "first_poll"
    /\ polls' = polls + 1
    /\ rpc' = "loop_cond"
    /\ UNCHANGED <<max_runtime, now, start_time, child, returncode, data,
                   n_samples, outcome, recordFile>>
    /\ UNCHANGED <<force_overwrite, handle>>
    /\ UNCHANGED <<environ, job>>
    /\ UNCHANGED <<requested, sampling_time, updateFrequency, slept>>
    /\ UNCHANGED nonRunVars

\* a loop condition that never looks at the clock
WithinRuntimeUnbounded == TRUE

\* a loop condition without the switch that disables the timeout
WithinRuntimeNoSwitch == now - start_time < max_runtime

\* the condition of the while of line 74
WithinRuntime == max_runtime <= 0 \/ now - start_time < max_runtime

\* line 74: the loop condition
LoopCond ==
    /\ rpc = "loop_cond"
    /\ IF WithinRuntime
         THEN rpc' = "poll"
         ELSE rpc' = "post_loop"
    /\ UNCHANGED <<max_runtime, now, start_time, child, returncode, polls, data,
                   n_samples, outcome, recordFile>>
    /\ UNCHANGED <<force_overwrite, handle>>
    /\ UNCHANGED <<environ, job>>
    /\ UNCHANGED <<requested, sampling_time, updateFrequency, slept>>
    /\ UNCHANGED nonRunVars

\* lines 78-93: poll and fuse
Poll ==
    /\ rpc = "poll"
    /\ polls <= MaxPolls
    /\ \E samples \in PollResults(polls + 1) : data' = Fuse(data, samples)
    /\ polls' = polls + 1
    /\ rpc' = "sleep"
    /\ UNCHANGED <<max_runtime, now, start_time, child, returncode, n_samples,
                   outcome, recordFile>>
    /\ UNCHANGED <<force_overwrite, handle>>
    /\ UNCHANGED <<environ, job>>
    /\ UNCHANGED <<requested, sampling_time, updateFrequency, slept>>
    /\ UNCHANGED nonRunVars

\* line 97: time.sleep(self.sampling_time / 1e3), one unit of the clock
Sleep ==
    /\ rpc = "sleep"
    /\ now < MaxTime
    /\ now' = now + 1
    /\ slept' = sampling_time * 1000
    /\ rpc' = "check"
    /\ UNCHANGED <<max_runtime, start_time, child, returncode, polls, data,
                   n_samples, outcome, recordFile>>
    /\ UNCHANGED <<force_overwrite, handle>>
    /\ UNCHANGED <<environ, job>>
    /\ UNCHANGED <<requested, sampling_time, updateFrequency>>
    /\ UNCHANGED nonRunVars

\* a liveness check that notes the failure and lets run go on
CheckChildRaiseLate ==
    /\ rpc = "check"
    /\ IF child = "exited"
         THEN /\ rpc' = "post_loop"
              /\ outcome' = IF returncode # 0 THEN "WorkloadFailure" ELSE outcome
         ELSE /\ rpc' = "loop_cond"
              /\ UNCHANGED outcome
    /\ UNCHANGED <<max_runtime, now, start_time, child, returncode, polls, data,
                   n_samples, recordFile, force_overwrite, handle>>
    /\ UNCHANGED <<environ, job>>
    /\ UNCHANGED <<requested, sampling_time, updateFrequency, slept>>
    /\ UNCHANGED nonRunVars

\* lines 100-104: the liveness check inside the loop
CheckChild ==
    /\ rpc = "check"
    /\ IF child = "exited"
         THEN IF returncode # 0
                THEN /\ outcome' = "WorkloadFailure"
                     /\ rpc' = "done"
                ELSE /\ rpc' = "post_loop"
                     /\ UNCHANGED outcome
         ELSE /\ rpc' = "loop_cond"
              /\ UNCHANGED outcome
    /\ UNCHANGED <<max_runtime, now, start_time, child, returncode, polls, data,
                   n_samples, recordFile>>
    /\ UNCHANGED <<force_overwrite, handle>>
    /\ UNCHANGED <<environ, job>>
    /\ UNCHANGED <<requested, sampling_time, updateFrequency, slept>>
    /\ UNCHANGED nonRunVars

\* lines 107-110: kill the child when it is still running after the loop
PostLoop ==
    /\ rpc = "post_loop"
    /\ child' = IF child = "running" THEN "killed" ELSE child
    /\ rpc' = "truncate"
    /\ UNCHANGED <<max_runtime, now, start_time, returncode, polls, data,
                   n_samples, outcome, recordFile>>
    /\ UNCHANGED <<force_overwrite, handle>>
    /\ UNCHANGED <<environ, job>>
    /\ UNCHANGED <<requested, sampling_time, updateFrequency, slept>>
    /\ UNCHANGED nonRunVars

\* lines 117 and 138-148: truncate_data; min() of an empty list raises
\* ValueError
TruncateData ==
    /\ rpc = "truncate"
    /\ IF SeriesLengths(data) = {}
         THEN /\ outcome' = "ValueError"
              /\ rpc' = "done"
              /\ UNCHANGED <<data, n_samples>>
         ELSE /\ n_samples' = MinSamples(data)
              /\ data' = Truncated(data, MinSamples(data))
              /\ rpc' = "dump"
              /\ UNCHANGED outcome
    /\ UNCHANGED <<max_runtime, now, start_time, child, returncode, polls,
                   recordFile>>
    /\ UNCHANGED <<force_overwrite, handle>>
    /\ UNCHANGED <<environ, job>>
    /\ UNCHANGED <<requested, sampling_time, updateFrequency, slept>>
    /\ UNCHANGED nonRunVars

\* lines 120-136 and JSONDataIO.dump up to open(self.file, 'w+'): the file
\* is created, or truncated when it exists; dump does not look at
\* force_overwrite
DumpOpen ==
    /\ rpc = "dump"
    /\ recordFile' = OpenedRecord
    /\ rpc' = "dump_write"
    /\ UNCHANGED <<max_runtime, now, start_time, child, returncode, polls, data,
                   n_samples, outcome>>
    /\ UNCHANGED <<force_overwrite, handle>>
    /\ UNCHANGED <<environ, job>>
    /\ UNCHANGED <<requested, sampling_time, updateFrequency, slept>>
    /\ UNCHANGED nonRunVars

\* JSONDataIO.dump: json.dump writes the record and the with-block closes
\* the file
DumpRecord ==
    /\ rpc = "dump_write"
    /\ recordFile' = [exists |-> TRUE, complete |-> TRUE, owner |-> "self",
                      n_samples |-> n_samples, data |-> data,
                      sampling_time |-> sampling_time]
    /\ outcome' = "record"
    /\ rpc' = "done"
    /\ UNCHANGED <<max_runtime, now, start_time, child, returncode, polls, data,
                   n_samples>>
    /\ UNCHANGED <<force_overwrite, handle>>
    /\ UNCHANGED <<environ, job>>
    /\ UNCHANGED <<requested, sampling_time, updateFrequency, slept>>
    /\ UNCHANGED nonRunVars

Running == rpc \notin {"idle", "init", "start", "done"}

\* another process writes a record under the same name, after the sampler
\* was constructed and before run has ended
ForeignWrite ==
    /\ rpc \notin {"idle", "init", "done"}
    /\ ~recordFile.exists
    /\ recordFile' = ForeignRecord
    /\ UNCHANGED <<max_runtime, now, start_time, child, returncode, rpc, polls,
                   data, n_samples, outcome>>
    /\ UNCHANGED <<force_overwrite, handle>>
    /\ UNCHANGED <<environ, job>>
    /\ UNCHANGED <<requested, sampling_time, updateFrequency, slept>>
    /\ UNCHANGED nonRunVars

\* the wall clock advances between any two steps of run
Tick ==
    /\ Running
    /\ now < MaxTime
    /\ now' = now + 1
    /\ UNCHANGED <<max_runtime, start_time, child, returncode, rpc, polls, data,
                   n_samples, outcome, recordFile>>
    /\ UNCHANGED <<force_overwrite, handle>>
    /\ UNCHANGED <<environ, job>>
    /\ UNCHANGED <<requested, sampling_time, updateFrequency, slept>>
    /\ UNCHANGED nonRunVars

\* the workload exits on its own, with any exit code
ChildExit ==
    /\ Running
    /\ child = "running"
    /\ child' = "exited"
    /\ returncode' \in {0, 1}
    /\ UNCHANGED <<max_runtime, now, start_time, rpc, polls, data, n_samples,
                   outcome, recordFile>>
    /\ UNCHANGED <<force_overwrite, handle>>
    /\ UNCHANGED <<environ, job>>
    /\ UNCHANGED <<requested, sampling_time, updateFrequency, slept>>
    /\ UNCHANGED nonRunVars

\* the shared store is not part of a capture
IOIdle ==
    /\ forceOverwrite = FALSE
    /\ preExists = FALSE
    /\ dbExists = FALSE
    /\ tables = {}
    /\ lockFile = 0
    /\ nextInode = 1
    /\ holder = [i \in Inodes |-> 0]
    /\ metaFile = AbsentFile
    /\ pc = [w \in Writers |-> "done"]
    /\ fd = [w \in Writers |-> 0]
    /\ metadata = [w \in Writers |-> EmptyMetadata]
    /\ ret = [w \in Writers |-> "none"]
    /\ orphan = [w \in Writers |-> FALSE]
    /\ dumpIdx = [w \in Writers |-> 1]
    /\ result = [w \in Writers |-> "none"]
    /\ creations = 0
    /\ removals = 0
    /\ removedAfterWrite = FALSE
    /\ errorPersisted = FALSE
    /\ metaCreator = 0

NextRun ==
    \/ ReadEnvironment
    \/ Construct
    \/ ForeignWrite
    \/ DumpOpen
    \/ RunStart
    \/ FirstPoll
    \/ LoopCond
    \/ Poll
    \/ Sleep
    \/ CheckChild
    \/ PostLoop
    \/ TruncateData
    \/ DumpRecord
    \/ Tick
    \/ ChildExit

InitRun == RunInit /\ IOIdle /\ MergeIdle /\ TruncIdle /\ JsonIdle /\ ReadIdle /\ CleanIdle /\ HandlerIdle /\ DownsampleIdle

SpecRun == InitRun /\ [][NextRun]_vars

\* lines 78-93 once MaxPolls polls are recorded: run polls on, and the model
\* no longer records the samples
PollBeyond ==
    /\ rpc = "poll"
    /\ polls > MaxPolls
    /\ rpc' = "sleep"
    /\ UNCHANGED <<max_runtime, now, start_time, child, returncode, polls, data,
                   n_samples, outcome, recordFile>>
    /\ UNCHANGED <<force_overwrite, handle>>
    /\ UNCHANGED <<environ, job>>
    /\ UNCHANGED <<requested, sampling_time, updateFrequency, slept>>
    /\ UNCHANGED nonRunVars

\* line 97 once the clock of the model stands at MaxTime: run sleeps on, and
\* the clock of the model stays
SleepBeyond ==
    /\ rpc = "sleep"
    /\ now >= MaxTime
    /\ slept' = sampling_time * 1000
    /\ rpc' = "check"
    /\ UNCHANGED <<max_runtime, now, start_time, child, returncode, polls, data,
                   n_samples, outcome, recordFile>>
    /\ UNCHANGED <<force_overwrite, handle>>
    /\ UNCHANGED <<environ, job>>
    /\ UNCHANGED <<requested, sampling_time, updateFrequency>>
    /\ UNCHANGED nonRunVars

\* the steps of the rank itself: the process is sequential and goes on to
\* its next statement; the workload, the clock between two statements and
\* the other processes are not bound to act
RunStep ==
    \/ ReadEnvironment
    \/ Construct
    \/ RunStart
    \/ FirstPoll
    \/ LoopCond
    \/ Poll
    \/ PollBeyond
    \/ Sleep
    \/ SleepBeyond
    \/ CheckChild
    \/ PostLoop
    \/ TruncateData
    \/ DumpOpen
    \/ DumpRecord

NextRunFair ==
    \/ RunStep
    \/ ForeignWrite
    \/ Tick
    \/ ChildExit

\* the captures of one requested interval: the interval decides no branch
InitRunFair == InitRun /\ requested = 10

SpecRunFair == InitRunFair /\ [][NextRunFair]_vars /\ WF_vars(RunStep)

\* every series of the written record has the recorded sample count
EqualLengths(rec) ==
    \A g \in DOMAIN rec.data : \A m \in DOMAIN rec.data[g] :
        Len(rec.data[g][m]) = rec.n_samples

\* C3: a child that exited with a non-zero code makes run fail with
\* WorkloadFailure, whenever the exit happens (stated for the captures that
\* hold a sample, where the truncation cannot fail).
C3_NonZeroExitFails ==
    (rpc = "done" /\ child = "exited" /\ returncode # 0 /\ outcome # "ValueError")
        => outcome = "WorkloadFailure"

\* C4: in every record the sampler writes, all series of all devices have
\* the same length, and it is the recorded sample count.
C4_EqualLengths ==
    recordFile.exists => EqualLengths(recordFile)

\* a record was written from series that had different lengths before the
\* truncation: two polls, one of which missed a metric
C4_Witness ==
    /\ recordFile.exists
    /\ recordFile.n_samples = 1
    /\ polls = 3
    /\ \E g \in DOMAIN recordFile.data : DOMAIN recordFile.data[g] = Metrics
    /\ \E g \in DOMAIN recordFile.data : \E m \in DOMAIN recordFile.data[g] :
           recordFile.data[g][m] = <<3>>

\* C6: a capture that ended by killing the child on timeout completes
\* without raising and writes a record with equal-length series.
C6_TimeoutWritesRecord ==
    (rpc = "done" /\ child = "killed")
        => (outcome = "record" /\ recordFile.exists /\ EqualLengths(recordFile))

\* C14 (as claimed): under the policy fail, no step replaces or changes a
\* record another process has written under the target name.
C14_NeverReplaces ==
    [][(~force_overwrite /\ recordFile.exists /\ recordFile.owner = "other")
          => recordFile' = recordFile]_vars

\* C15 (as claimed): whenever the record exists under its final name it is
\* complete.
C15_AllOrNothing ==
    recordFile.exists => recordFile.complete

\* C16 (as claimed): when run has ended, the device-group registration the
\* sampler acquired has been released.
C16_HandleReleased ==
    (rpc = "done" /\ outcome \in {"record", "WorkloadFailure"})
        => handle # "registered"

\* C17: once run has failed with WorkloadFailure, the record file is not one
\* this run has created or written.
C17_NoRecordOnFailure ==
    outcome = "WorkloadFailure" => recordFile.owner # "self"

\* run has failed with WorkloadFailure after appending samples, and the
\* record another process wrote meanwhile is still there
C17_Witness ==
    /\ rpc = "done"
    /\ outcome = "WorkloadFailure"
    /\ data # <<>>
    /\ recordFile = ForeignRecord

\* the positions of run after the profiling loop
AfterLoop == rpc \in {"post_loop", "truncate", "dump", "dump_write"}
                \/ (rpc = "done" /\ outcome \notin {"AlreadyExists", "ConfigError",
                                                   "ConfigValueError"})

\* C18: the child is killed only when a timeout is set and the elapsed time
\* has reached it; without a timeout the child is never killed and the loop
\* is left only after the child has exited.
C18_KillOnlyOnTimeout ==
    /\ child = "killed" => (max_runtime > 0 /\ now - start_time >= max_runtime)
    /\ (max_runtime <= 0 /\ AfterLoop) => child = "exited"
    /\ (rpc = "post_loop" /\ child = "running")
          => (max_runtime > 0 /\ now - start_time >= max_runtime)

\* a capture with a timeout has ended by killing the child
C18_Witness ==
    /\ rpc = "done"
    /\ child = "killed"
    /\ max_runtime = 2
    /\ outcome = "record"

(***************************************************************************)
(* truncate_data on its own: the function applied to self.data, twice.     *)
(***************************************************************************)
\* the lists the polling loop can have built: a list exists only once a
\* sample was appended to it (lines 88-93), so none is empty; a poll appends
\* its value, the number of the poll, to the lists of the metrics it
\* returned
CapturedSeries ==
    {lst \in UNION {[1..n -> 1..MaxCaptured] : n \in 1..MaxCaptured} :
        \A i \in 1..(Len(lst) - 1) : lst[i] < lst[i + 1]}

\* self.data as the loop can leave it: some devices, each with some metrics
CapturedData ==
    UNION {[ds -> UNION {[ms -> CapturedSeries] : ms \in SUBSET Metrics}] :
              ds \in SUBSET Devices}

TruncInit ==
    /\ self_data \in CapturedData
    /\ history = <<>>
    /\ returns = <<>>
    /\ terror = "none"

\* lines 138-148: one call of truncate_data; min() of an empty list raises
\* ValueError before any series is touched
TruncateCall ==
    /\ terror = "none"
    /\ Len(history) < 2
    /\ history' = Append(history, self_data)
    /\ IF SeriesLengths(self_data) = {}
         THEN /\ terror' = "ValueError"
              /\ UNCHANGED <<self_data, returns>>
         ELSE /\ self_data' = Truncated(self_data, MinSamples(self_data))
              /\ returns' = Append(returns, MinSamples(self_data))
              /\ UNCHANGED terror
    /\ UNCHANGED nonTruncVars

InitTruncate == TruncInit /\ IOIdle /\ RunIdle /\ MergeIdle /\ JsonIdle /\ ReadIdle /\ CleanIdle /\ HandlerIdle /\ DownsampleIdle

SpecTruncate == InitTruncate /\ [][TruncateCall]_vars

\* self.data over time: Snapshots[i] is what call number i found and
\* Snapshots[i + 1] what it left
Snapshots == Append(history, self_data)

\* C21: truncation keeps the newest samples: the count a call returns is the
\* minimum length over all series before the call, and after the call every
\* series is the last n entries of what it was before, in their order.
C21_KeepsNewest ==
    \A i \in 1..Len(returns) :
        LET n == returns[i]
        IN /\ \A g \in DOMAIN Snapshots[i] : \A m \in DOMAIN Snapshots[i][g] :
                  n <= Len(Snapshots[i][g][m])
           /\ \E g \in DOMAIN Snapshots[i] : \E m \in DOMAIN Snapshots[i][g] :
                  n = Len(Snapshots[i][g][m])
           /\ DOMAIN Snapshots[i + 1] = DOMAIN Snapshots[i]
           /\ \A g \in DOMAIN Snapshots[i] :
                  /\ DOMAIN Snapshots[i + 1][g] = DOMAIN Snapshots[i][g]
                  /\ \A m \in DOMAIN Snapshots[i][g] :
                        LET old == Snapshots[i][g][m]
                        IN Snapshots[i + 1][g][m] =
                               [k \in 1..n |-> old[Len(old) - n + k]]

\* a call has dropped the two oldest entries of a series
C21_Witness ==
    /\ Len(returns) >= 1
    /\ \E g \in DOMAIN Snapshots[1] : \E m \in DOMAIN Snapshots[1][g] :
          /\ Snapshots[1][g][m] = <<1, 2, 3>>
          /\ Snapshots[2][g][m] = <<3>>

\* C22: truncation is idempotent: a second call on the truncated series
\* changes no series and returns the count the first call returned.
C22_Idempotent ==
    Len(returns) = 2 =>
        /\ self_data = history[2]
        /\ returns[2] = returns[1]

\* the second call came after a first call that shortened a series
C22_Witness ==
    /\ Len(returns) = 2
    /\ history[1] # history[2]
    /\ self_data = history[2]

(***************************************************************************)
(* The per-rank record on disk: JSONDataIO.dump and JSONDataIO.load.       *)
(* A dict is a function from keys to values; a device key carries its      *)
(* Python type, a metric name is a str.  A JSON object is the sequence of  *)
(* its members, each a str key and a value.                                *)
(***************************************************************************)
\* the orders in which the elements of a collection can be listed; the
\* iteration order of a set of strings depends on the hash seed of the
\* process, so list(set(...)) can give any of them
Orderings(S) ==
    {o \in [1..Cardinality(S) -> S] : \A i, j \in DOMAIN o : o[i] = o[j] => i = j}

\* self.data as truncate_data leaves it: int device keys, series of one
\* length
DumpedData ==
    UNION {UNION {[{[type |-> "int", id |-> g] : g \in ds} ->
                     UNION {[ms -> [1..n -> {0, 1}]] : ms \in SUBSET Metrics}] :
                     ds \in SUBSET Devices} : n \in 1..MaxCaptured}

\* lines 120-133 of the sampler: the metadata names the devices in a list
RoundTripInit ==
    /\ written \in UNION {{<<[gpu_ids |-> o], d>> :
                               o \in Orderings({k.id : k \in DOMAIN d})} :
                              d \in DumpedData}
    /\ fileText = <<>>
    /\ loaded = <<>>

\* json.dump writes the key of a dict member as a string: an int key as its
\* decimal digits
JsonKey(k) == [type |-> "str", id |-> k.id]

\* json.dump of a dict: one member per key, in the order of insertion
JsonObject(dict, order) ==
    [i \in DOMAIN order |-> [name |-> JsonKey(order[i]), value |-> dict[order[i]]]]

\* json.load of an object: a dict with the member names as keys
PyDict(members) ==
    [k \in {members[i].name : i \in DOMAIN members} |->
        (CHOOSE m \in {members[i] : i \in DOMAIN members} : m.name = k).value]

\* lines 16-25: dump; a list is written as an array, a number as a number
JsonDump ==
    /\ written # <<>>
    /\ fileText = <<>>
    /\ \E order \in Orderings(DOMAIN written[2]) :
           fileText' = <<[metadata |-> written[1],
                          data |-> JsonObject(written[2], order)]>>
    /\ UNCHANGED <<written, loaded>>
    /\ UNCHANGED nonJsonVars

\* lines 28-38: load
JsonLoad ==
    /\ fileText # <<>>
    /\ loaded = <<>>
    /\ loaded' = <<fileText[1].metadata, PyDict(fileText[1].data)>>
    /\ UNCHANGED <<written, fileText>>
    /\ UNCHANGED nonJsonVars

NextRoundTrip == JsonDump \/ JsonLoad

InitRoundTrip == RoundTripInit /\ IOIdle /\ RunIdle /\ MergeIdle /\ TruncIdle /\ ReadIdle /\ CleanIdle /\ HandlerIdle /\ DownsampleIdle

SpecRoundTrip == InitRoundTrip /\ [][NextRoundTrip]_vars

\* C26: per-rank records round-trip losslessly: the pair load returns equals
\* the pair dump wrote, including the device ids that key the series map and
\* the order of the samples of every series.
C26_RoundTrip ==
    loaded # <<>> => loaded = written

(***************************************************************************)
(* The cleanser: detect(series, mode), the detection of warm-up samples.   *)
(* Utilization and log(i + 1) are in hundredths; a mean is the pair of a   *)
(* sum and a count, and means are compared by cross-multiplication.        *)
(***************************************************************************)
\* 100 * log(i + 1) for the sample indices i = 0, 1, ..., rounded
LogIndex == <<0, 69, 110, 139, 161, 179, 195, 208>>

\* utilization levels in hundredths; they are positive, the relative gap of
\* step 4 being defined only for a positive higher mean
Levels == {5, 45, 50, 90}

\* the series of the analyzer and the value of --detect-outliers
CleanInit ==
    /\ series \in UNION {[1..n -> Levels] : n \in 2..MaxTrace}
    /\ cmode \in {"leading", "trailing", "all", "none"}
    /\ clusters = <<>>
    /\ mask = {}
    /\ cpc = "call"

RECURSIVE SumOver(_, _)
SumOver(idx, f) ==
    IF idx = {} THEN 0
    ELSE LET i == CHOOSE j \in idx : TRUE IN f[i] + SumOver(idx \ {i}, f)

\* step 2: the partitions of the points (log(i + 1), utilization) into two
\* clusters that 2-means aims at, those of least within-cluster sum of
\* squares; a partition is named by the cluster of the first sample.  The
\* sum of squares of a cluster is a constant less (Sx^2 + Su^2) / size
TwoMeans(u) ==
    LET n == Len(u)
        parts == {A \in SUBSET (1..n) : 1 \in A /\ A # 1..n}
        gain(C) == SumOver(C, LogIndex) * SumOver(C, LogIndex)
                     + SumOver(C, u) * SumOver(C, u)
        num == [A \in parts |->
                   gain(A) * (n - Cardinality(A))
                     + gain((1..n) \ A) * Cardinality(A)]
        den == [A \in parts |-> Cardinality(A) * (n - Cardinality(A))]
    IN {A \in parts : \A B \in parts : num[A] * den[B] >= num[B] * den[A]}

\* steps 3 and 4 without the test of the gap: the candidate is always flagged
FlagsAlways(u, A) ==
    LET B == (1..Len(u)) \ A
    IN IF SumOver(A, u) * Cardinality(B) <= SumOver(B, u) * Cardinality(A)
         THEN A ELSE B

\* steps 3 and 4 with the cluster of the higher mean as the candidate
FlagsHigher(u, A) ==
    LET B == (1..Len(u)) \ A
        aLow == SumOver(A, u) * Cardinality(B) <= SumOver(B, u) * Cardinality(A)
        low == IF aLow THEN A ELSE B
        high == IF aLow THEN B ELSE A
    IN IF 100 * (SumOver(high, u) * Cardinality(low)
                   - SumOver(low, u) * Cardinality(high))
            >= 15 * SumOver(high, u) * Cardinality(low)
         THEN high ELSE {}

\* steps 3 and 4: the cluster of the lower mean utilization is the
\* candidate; it is flagged when (highMean - lowMean) / highMean >= 0.15 and
\* nothing is flagged otherwise
Flags(u, A) ==
    LET B == (1..Len(u)) \ A
        aLow == SumOver(A, u) * Cardinality(B) <= SumOver(B, u) * Cardinality(A)
        low == IF aLow THEN A ELSE B
        high == IF aLow THEN B ELSE A
    IN IF 100 * (SumOver(high, u) * Cardinality(low)
                   - SumOver(low, u) * Cardinality(high))
            >= 15 * SumOver(high, u) * Cardinality(low)
         THEN low ELSE {}

\* the series read from its end, for the trailing direction
Reversed(u) == [i \in 1..Len(u) |-> u[Len(u) + 1 - i]]

\* detect: the leading pass on the series, the trailing pass on the reversed
\* series with its flags mapped back, and both for "all" (step 5)
Detect ==
    /\ cpc = "call"
    /\ cmode # "none"
    /\ \E lead \in TwoMeans(series), trail \in TwoMeans(Reversed(series)) :
          LET fwd == Flags(series, lead)
              bwd == {Len(series) + 1 - i : i \in Flags(Reversed(series), trail)}
          IN /\ clusters' = <<lead, trail>>
             /\ mask' = IF cmode = "leading" THEN fwd
                        ELSE IF cmode = "trailing" THEN bwd
                        ELSE fwd \cup bwd
    /\ cpc' = "done"
    /\ UNCHANGED <<series, cmode>>
    /\ UNCHANGED nonCleanVars

\* analyze with --detect-outliers none: detect is not called
SkipDetect ==
    /\ cpc = "call"
    /\ cmode = "none"
    /\ cpc' = "done"
    /\ UNCHANGED <<series, cmode, clusters, mask>>
    /\ UNCHANGED nonCleanVars

NextClean ==
    \/ Detect
    \/ SkipDetect

InitClean ==
    CleanInit /\ IOIdle /\ RunIdle /\ MergeIdle /\ TruncIdle /\ JsonIdle /\ ReadIdle
        /\ HandlerIdle /\ DownsampleIdle

SpecClean == InitClean /\ [][NextClean]_vars

(***************************************************************************)
(* downsampleMetrics(data, n) of profiler/metrics.py.  A mean is the pair  *)
(* of the sum and the number of the values it is taken over.               *)
(***************************************************************************)
\* np.array_split(a, n): the n segments, of which the first len(a) % n have
\* len(a) \div n + 1 entries and the others len(a) \div n
ArraySplit(a, n) ==
    LET q == Len(a) \div n
        r == Len(a) % n
        from(k) == IF k <= r THEN (k - 1) * (q + 1) ELSE r * (q + 1) + (k - 1 - r) * q
        size(k) == IF k <= r THEN q + 1 ELSE q
    IN [k \in 1..n |-> SubSeq(a, from(k) + 1, from(k) + size(k))]

RECURSIVE SeqSum(_)
SeqSum(a) == IF a = <<>> THEN 0 ELSE Head(a) + SeqSum(Tail(a))

\* lines 32-46: what downsampleMetrics returns; the list handed back
\* unchanged at line 38 is written as the means of its single values
DownsampleMetrics(a, n) ==
    IF n <= 0 \/ Len(a) = 0 THEN <<>>
    ELSE IF n = 1 \/ Len(a) = n THEN [i \in DOMAIN a |-> <<a[i], 1>>]
    ELSE [k \in 1..n |-> <<SeqSum(ArraySplit(a, n)[k]), Len(ArraySplit(a, n)[k])>>]

\* one call, on a list of up to MaxValues values and a count around them
DownsampleCall ==
    /\ dspc = "call"
    /\ downsampled' = DownsampleMetrics(values, nsegments)
    /\ dspc' = "done"
    /\ UNCHANGED <<values, nsegments>>
    /\ UNCHANGED nonDownsampleVars

InitDownsample ==
    /\ values \in UNION {[1..k -> {0, 1}] : k \in 0..MaxValues}
    /\ nsegments \in (0 - 1)..(MaxValues + 1)
    /\ downsampled = <<>>
    /\ dspc = "call"
    /\ IOIdle /\ RunIdle /\ MergeIdle /\ TruncIdle /\ JsonIdle /\ ReadIdle
    /\ CleanIdle /\ HandlerIdle

SpecDownsample == InitDownsample /\ [][DownsampleCall]_vars

(***************************************************************************)
(* The offline merge: ExportDataHandler.export_db.                         *)
(***************************************************************************)
JobIds == {1, 2}
ProcIds == {0, 1}
\* the device lists of a rank, in the order the sampler first saw them
GpuLists == {<<>>, <<0>>, <<0, 1>>}
Formats == {"json", "binary"}
\* the metric names a capture can have discovered
MetricSets == {{"util"}, Metrics}
Labels == {"a", "b"}
Commands == {"x", "y"}
Hostnames == {"h1", "h2"}

\* a per-rank record as the sampler dumped it: the metadata and, for every
\* device of gpu_ids, one series of n_samples samples per metric
Topologies ==
    [job_id : JobIds, proc_id : ProcIds, gpu_ids : GpuLists,
     n_samples : 1..MaxSeriesLen]
\* what else a record carries: the usual values, or one entry that differs
UsualPayload == [metrics |-> Metrics, label |-> "a", cmd |-> "x", hostname |-> "h1"]
Payloads ==
    {p \in [metrics : MetricSets, label : Labels, cmd : Commands,
            hostname : Hostnames] :
        Cardinality({k \in DOMAIN p : p[k] # UsualPayload[k]}) <= 1}
\* the top-level keys of the JSON object of a record
Sections == {"metadata", "data"}
RecordFiles ==
    {[job_id |-> t.job_id, proc_id |-> t.proc_id, gpu_ids |-> t.gpu_ids,
      n_samples |-> t.n_samples, metrics |-> p.metrics, label |-> p.label,
      cmd |-> p.cmd, hostname |-> p.hostname, sections |-> Sections] :
        t \in Topologies, p \in Payloads}

\* the list handed to the handler; nothing in __init__ requires an entry
FileLists == UNION {[1..n -> RecordFiles] : n \in 0..MaxRecords}

\* the key of a device in the loaded data dict: json.dump writes the int
\* keys of self.data as strings and json.load returns them as strings
DeviceKey(fmt, g) == [type |-> IF fmt = "json" THEN "str" ELSE "int", id |-> g]

\* what load returns on the KeyError of lines 34-38: the pair (None, None)
NonePair == [none |-> TRUE]

\* IO_class(file).load(): the (metadata, data) pair, or the pair of None
\* when the object read from the file lacks one of the two sections
Load(fmt, f) ==
    IF f.sections # Sections THEN NonePair
    ELSE
    [job_id |-> f.job_id, proc_id |-> f.proc_id, gpu_ids |-> f.gpu_ids,
     n_samples |-> f.n_samples, metrics |-> f.metrics, label |-> f.label,
     cmd |-> f.cmd, hostname |-> f.hostname,
     keys |-> [k \in DOMAIN f.gpu_ids |-> DeviceKey(fmt, f.gpu_ids[k])],
     none |-> FALSE]

\* the keys of the metadata dict of a record: the sampler writes the same
\* twelve entries into every record
MetadataKeys(rec) ==
    {"job_id", "label", "hostname", "proc_id", "n_gpus", "gpu_ids",
     "start_time", "end_time", "elapsed", "sampling_time", "n_samples", "cmd"}

\* lines 76-80: the DataFrame of one device of one record, one row per sample;
\* its metric columns are the metrics of the record
Frame(rec, key) ==
    [bound |-> TRUE,
     rows |-> [k \in 1..rec.n_samples |->
                 [job_id |-> rec.job_id, proc_id |-> rec.proc_id,
                  gpu_id |-> key, sample_index |-> k - 1,
                  metrics |-> rec.metrics]]]

\* lines 103-112: the process_metadata row of one record
ProcessRow(rec) ==
    [job_id |-> rec.job_id, proc_id |-> rec.proc_id, hostname |-> rec.hostname,
     n_gpus |-> Len(rec.gpu_ids), gpu_ids |-> rec.gpu_ids]

RECURSIVE SumGpus(_, _)
SumGpus(recs, n) ==
    IF n = 0 THEN 0 ELSE Len(recs[n].gpu_ids) + SumGpus(recs, n - 1)

\* set(d[0]["hostname"] for d in data)
HostSet(recs) == {recs[i].hostname : i \in DOMAIN recs}

\* lines 142-154: the job_metadata row; hosts is the order in which line 146
\* joined the host names (the three medians are left out)
JobRow(recs, hosts) ==
    [job_id |-> recs[1].job_id, label |-> recs[1].label,
     n_hosts |-> Cardinality(HostSet(recs)), hostnames |-> hosts,
     n_procs |-> Len(recs), n_gpus |-> SumGpus(recs, Len(recs)),
     metrics |-> recs[1].metrics, cmd |-> recs[1].cmd]

\* the tables an export of one rank of an earlier step leaves in the store
PriorRecord ==
    Load("binary", [job_id |-> 1, proc_id |-> 0, gpu_ids |-> <<0>>, n_samples |-> 1,
                    metrics |-> Metrics, label |-> "a", cmd |-> "x",
                    hostname |-> "h1", sections |-> Sections])
PriorStores ==
    { <<<<>>, {}, {}>>,
      <<Frame(PriorRecord, PriorRecord.keys[1]).rows, {ProcessRow(PriorRecord)},
        {JobRow(<<PriorRecord>>, <<"h1">>)}>> }

MergeInit ==
    /\ input_format \in Formats
    /\ input_files \in FileLists
    /\ raw_data = <<>>
    /\ mpc = "read_files"
    /\ mi = 1
    /\ df = [bound |-> FALSE, rows |-> <<>>]
    /\ priorTables \in PriorStores
    /\ dataTable = priorTables[1]
    /\ processTable = priorTables[2]
    /\ jobTable = priorTables[3]
    /\ mresult = "none"
    /\ run = 1
    /\ mode = "none"
    /\ firstTables = <<<<>>, {}, {}>>
    /\ firstResult = "none"

\* line 168 and read_files
ReadFiles ==
    /\ mpc = "read_files"
    /\ raw_data' = [i \in DOMAIN input_files |-> Load(input_format, input_files[i])]
    /\ mpc' = "check_job"
    /\ UNCHANGED <<input_format, input_files, mi, df, dataTable, processTable,
                   jobTable, priorTables, mresult>>
    /\ UNCHANGED rerunVars
    /\ UNCHANGED nonMergeVars

\* all(...) replaced by any(...)
JobIdsAgreeAny(recs) ==
    \E i \in DOMAIN recs : recs[i].job_id = recs[1].job_id

\* the condition of the assert of line 171
JobIdsAgree(recs) ==
    \A i \in DOMAIN recs : recs[i].job_id = recs[1].job_id

\* the first record at which the generator of line 171 subscripts None:
\* d[0] of that record, or data[0][0] at the first record; 0 if there is none
FirstNone(recs) ==
    IF \A i \in DOMAIN recs : ~recs[i].none THEN 0
    ELSE IF recs[1].none THEN 1
    ELSE CHOOSE i \in DOMAIN recs :
            recs[i].none /\ \A j \in 1..(i - 1) : ~recs[j].none

\* line 171: assert that all input files have the same job id; all() stops
\* at the first record of another job id, and subscripting None raises
\* TypeError
AssertJobIds ==
    /\ mpc = "check_job"
    /\ LET k == FirstNone(raw_data)
           seen == IF k = 0 THEN raw_data ELSE SubSeq(raw_data, 1, k - 1)
       IN IF ~JobIdsAgree(seen)
            THEN /\ mresult' = "JobMismatch"
                 /\ mpc' = "done"
            ELSE IF k # 0
            THEN /\ mresult' = "TypeError"
                 /\ mpc' = "done"
            ELSE /\ mpc' = "data_assert"
                 /\ UNCHANGED mresult
    /\ UNCHANGED <<input_format, input_files, raw_data, mi, df, dataTable,
                   processTable, jobTable, priorTables>>
    /\ UNCHANGED rerunVars
    /\ UNCHANGED nonMergeVars

\* d[0].keys() == raw_data[0][0].keys() for every d: d[0] is the metadata
\* dict of a record, so the keys compared are the metadata keys
SameKeys(recs) ==
    \A i \in DOMAIN recs : MetadataKeys(recs[i]) = MetadataKeys(recs[1])

\* line 69: the assert at the head of create_data_table
AssertSameKeys ==
    /\ mpc = "data_assert"
    /\ IF SameKeys(raw_data)
         THEN /\ mpc' = "data_table"
              /\ UNCHANGED mresult
         ELSE /\ mresult' = "SchemaMismatch"
              /\ mpc' = "done"
    /\ UNCHANGED <<input_format, input_files, raw_data, mi, df, dataTable,
                   processTable, jobTable, priorTables>>
    /\ UNCHANGED rerunVars
    /\ UNCHANGED nonMergeVars

\* the metric columns of table "data": those of the frame that created it
TableColumns == dataTable[1].metrics

\* lines 74-82, one pass of the outer loop: the inner loop rebinds df for
\* every device of the record, and the to_sql after it appends the df that
\* is bound then; with no df bound yet the name lookup fails. to_sql creates
\* the table from the frame when it is missing; an append of a frame with a
\* column the table lacks fails in sqlite, a missing column is left NULL
CreateDataTableRecord ==
    /\ mpc = "data_table"
    /\ mi <= Len(raw_data)
    /\ LET rec == raw_data[mi]
           last == IF rec.keys = <<>> THEN df
                   ELSE Frame(rec, rec.keys[Len(rec.keys)])
       IN IF ~last.bound
            THEN /\ mresult' = "UnboundLocalError"
                 /\ mpc' = "done"
                 /\ UNCHANGED <<df, dataTable, mi>>
            ELSE IF dataTable # <<>> /\ ~(last.rows[1].metrics \subseteq TableColumns)
            THEN /\ mresult' = "OperationalError"
                 /\ mpc' = "done"
                 /\ df' = last
                 /\ UNCHANGED <<dataTable, mi>>
            ELSE /\ df' = last
                 /\ dataTable' = dataTable \o last.rows
                 /\ mi' = mi + 1
                 /\ UNCHANGED <<mpc, mresult>>
    /\ UNCHANGED <<input_format, input_files, raw_data, processTable, jobTable,
                   priorTables>>
    /\ UNCHANGED rerunVars
    /\ UNCHANGED nonMergeVars

\* lines 97-120: create_process_metadata_table, if_exists="replace".  With
\* no record the frame of line 115 has no column: to_sql drops the table it
\* replaces and then either creates an empty one or fails in sqlite on the
\* CREATE TABLE without columns, depending on the pandas at hand
CreateProcessMetadataTable ==
    /\ mpc = "data_table"
    /\ mi > Len(raw_data)
    /\ processTable' = {ProcessRow(raw_data[i]) : i \in DOMAIN raw_data}
    /\ \/ /\ mpc' = "job_metadata"
          /\ UNCHANGED mresult
       \/ /\ raw_data = <<>>
          /\ mresult' = "OperationalError"
          /\ mpc' = "done"
    /\ UNCHANGED <<input_format, input_files, raw_data, mi, df, dataTable,
                   jobTable, priorTables>>
    /\ UNCHANGED rerunVars
    /\ UNCHANGED nonMergeVars

\* lines 139-162: create_job_metadata_table, if_exists="replace"; line 152
\* looks the device 0 up in the first record's data by its int key; with no
\* record data[0] of line 143 raises IndexError
CreateJobMetadataTable ==
    /\ mpc = "job_metadata"
    /\ IF raw_data = <<>>
         THEN /\ mresult' = "IndexError"
              /\ UNCHANGED jobTable
         ELSE IF \E k \in DOMAIN raw_data[1].keys :
              raw_data[1].keys[k] = [type |-> "int", id |-> 0]
         THEN /\ \E hosts \in Orderings(HostSet(raw_data)) :
                     jobTable' = {JobRow(raw_data, hosts)}
              /\ mresult' = "ok"
         ELSE /\ mresult' = "KeyError"
              /\ UNCHANGED jobTable
    /\ mpc' = "done"
    /\ UNCHANGED <<input_format, input_files, raw_data, mi, df, dataTable,
                   processTable, priorTables>>
    /\ UNCHANGED rerunVars
    /\ UNCHANGED nonMergeVars

\* the tables as a triple
Tables == <<dataTable, processTable, jobTable>>

\* export_db is called once more on the same handler with the same input
\* files: the connection and the store are the ones the first call wrote to
RetryExport ==
    /\ mpc = "done"
    /\ mresult # "AlreadyExists"
    /\ run = 1
    /\ run' = 2
    /\ mode' = "retry"
    /\ firstTables' = Tables
    /\ firstResult' = mresult
    /\ priorTables' = Tables
    /\ raw_data' = <<>>
    /\ mpc' = "read_files"
    /\ mi' = 1
    /\ df' = [bound |-> FALSE, rows |-> <<>>]
    /\ mresult' = "none"
    /\ UNCHANGED <<input_format, input_files, dataTable, processTable, jobTable>>
    /\ UNCHANGED nonMergeVars

Shuffles(n) ==
    {p \in [1..n -> 1..n] : \A i, j \in 1..n : p[i] = p[j] => i = j}

\* the same records are exported in another order into a store that is as
\* the store of the first export was when it began
ExportPermuted ==
    /\ mpc = "done"
    /\ mresult # "AlreadyExists"
    /\ run = 1
    /\ run' = 2
    /\ mode' = "permuted"
    /\ firstTables' = Tables
    /\ firstResult' = mresult
    /\ \E p \in Shuffles(Len(input_files)) :
           input_files' = [i \in DOMAIN input_files |-> input_files[p[i]]]
    /\ dataTable' = priorTables[1]
    /\ processTable' = priorTables[2]
    /\ jobTable' = priorTables[3]
    /\ raw_data' = <<>>
    /\ mpc' = "read_files"
    /\ mi' = 1
    /\ df' = [bound |-> FALSE, rows |-> <<>>]
    /\ mresult' = "none"
    /\ UNCHANGED <<input_format, priorTables>>
    /\ UNCHANGED nonMergeVars

NextMerge ==
    \/ RetryExport
    \/ ExportPermuted
    \/ ReadFiles
    \/ AssertJobIds
    \/ AssertSameKeys
    \/ CreateDataTableRecord
    \/ CreateProcessMetadataTable
    \/ CreateJobMetadataTable

InitMerge == MergeInit /\ IOIdle /\ RunIdle /\ TruncIdle /\ JsonIdle /\ ReadIdle /\ CleanIdle /\ HandlerIdle /\ DownsampleIdle

SpecMerge == InitMerge /\ [][NextMerge]_vars

(***************************************************************************)
(* The export handler from its construction: __init__ and export_db.       *)
(***************************************************************************)
\* a record file whose JSON object has no data section
CorruptFile ==
    [job_id |-> 1, proc_id |-> 0, gpu_ids |-> <<0>>, n_samples |-> 1,
     metrics |-> Metrics, label |-> "a", cmd |-> "x", hostname |-> "h1",
     sections |-> {"metadata"}]

\* the files of a step directory: records with the usual label, command,
\* host and metrics, and files that lack a section
HandlerFiles ==
    {f \in RecordFiles :
        f.metrics = Metrics /\ f.label = "a" /\ f.cmd = "x" /\ f.hostname = "h1"}
      \cup {CorruptFile}

\* the handler is about to be constructed on a path where a store of an
\* earlier invocation may be; the files are read with JSONDataIO, or with
\* BinaryDataIO when every file has its sections
HandlerInit ==
    /\ hforce \in BOOLEAN
    /\ oldStore \in {<<>>} \cup {<<t>> : t \in PriorStores \ {<<<<>>, {}, {}>>}}
    /\ storeExists = (oldStore # <<>>)
    /\ input_format \in Formats
    /\ input_files \in UNION {[1..n -> HandlerFiles] : n \in 0..MaxRecords}
    /\ input_format = "binary" => \A i \in DOMAIN input_files : input_files[i] # CorruptFile
    /\ raw_data = <<>>
    /\ mpc = "construct"
    /\ mi = 1
    /\ df = [bound |-> FALSE, rows |-> <<>>]
    /\ priorTables = IF oldStore = <<>> THEN <<<<>>, {}, {}>> ELSE oldStore[1]
    /\ dataTable = priorTables[1]
    /\ processTable = priorTables[2]
    /\ jobTable = priorTables[3]
    /\ mresult = "none"
    /\ run = 1
    /\ mode = "none"
    /\ firstTables = <<<<>>, {}, {}>>
    /\ firstResult = "none"

\* __init__, lines 14-45: check_overwrite raises when the store exists and
\* force_overwrite is not set; establish_connection removes an existing
\* store, and sqlite3.connect creates the file of an empty one
ConstructHandler ==
    /\ mpc = "construct"
    /\ IF storeExists /\ ~hforce
         THEN /\ mresult' = "AlreadyExists"
              /\ mpc' = "done"
              /\ UNCHANGED <<dataTable, processTable, jobTable, priorTables,
                             storeExists>>
         ELSE /\ dataTable' = <<>>
              /\ processTable' = {}
              /\ jobTable' = {}
              /\ priorTables' = <<<<>>, {}, {}>>
              /\ storeExists' = TRUE
              /\ mpc' = "read_files"
              /\ UNCHANGED mresult
    /\ UNCHANGED <<input_format, input_files, raw_data, mi, df>>
    /\ UNCHANGED rerunVars
    /\ UNCHANGED <<hforce, oldStore>>
    /\ UNCHANGED <<ioVars, runVars, truncVars, jsonVars, readVars, cleanVars,
                   downsampleVars>>

NextHandler ==
    \/ ConstructHandler
    \/ NextMerge

InitHandler ==
    HandlerInit /\ IOIdle /\ RunIdle /\ TruncIdle /\ JsonIdle /\ ReadIdle /\ CleanIdle
        /\ DownsampleIdle

SpecHandler == InitHandler /\ [][NextHandler]_vars

\* the rows the export has appended to table "data"
Appended == SubSeq(dataTable, Len(priorTables[1]) + 1, Len(dataTable))

Occurrences(rows, x) == Cardinality({j \in DOMAIN rows : rows[j] = x})

\* the (record, device, sample index) triples of the input
SampleTriples ==
    {t \in (DOMAIN raw_data) \X (UNION {DOMAIN l : l \in GpuLists})
                \X (0..(MaxSeriesLen - 1)) :
        /\ t[2] \in DOMAIN raw_data[t[1]].keys
        /\ t[3] < raw_data[t[1]].n_samples}

RowOf(t) ==
    [job_id |-> raw_data[t[1]].job_id, proc_id |-> raw_data[t[1]].proc_id,
     gpu_id |-> raw_data[t[1]].keys[t[2]], sample_index |-> t[3],
     metrics |-> raw_data[t[1]].metrics]

\* C5: once create_data_table has gone through every record, table "data"
\* has gained exactly one row per (record, device, sample index), tagged with
\* the record's job id and rank id, the device id and the index.
C5_OneRowPerSample ==
    (mpc \in {"job_metadata", "done"} /\ mresult \in {"none", "ok", "KeyError"}
        /\ mi > Len(raw_data) /\ raw_data # <<>>)
    => /\ \A t \in SampleTriples :
             Occurrences(Appended, RowOf(t))
                 = Cardinality({u \in SampleTriples : RowOf(u) = RowOf(t)})
       /\ \A j \in DOMAIN Appended : \E t \in SampleTriples : Appended[j] = RowOf(t)

\* C10: when two input records carry different job ids, export_db fails with
\* JobMismatch and the three tables are what they were before.
C10_MixedJobIdsRejected ==
    (mpc = "done" /\ \E i, j \in DOMAIN raw_data :
                         raw_data[i].job_id # raw_data[j].job_id)
        => /\ mresult = "JobMismatch"
           /\ Tables = priorTables

\* an export of two records of different jobs has ended, in a store that held
\* the tables of an earlier step
C10_Witness ==
    /\ mpc = "done"
    /\ Len(raw_data) = 2
    /\ raw_data[1].job_id # raw_data[2].job_id
    /\ mresult = "JobMismatch"
    /\ priorTables[1] # <<>>

\* every record has samples of at least one device
AllHaveDevices(recs) == \A i \in DOMAIN recs : recs[i].keys # <<>>

\* C11 (as claimed): when two input records of one job have different sets
\* of metric names, export_db fails with SchemaMismatch and the three tables
\* are what they were before (stated for records that all hold samples).
C11_MixedSchemasRejected ==
    (mpc = "done" /\ JobIdsAgree(raw_data) /\ AllHaveDevices(raw_data)
        /\ \E i, j \in DOMAIN raw_data : raw_data[i].metrics # raw_data[j].metrics)
    => /\ mresult = "SchemaMismatch"
       /\ Tables = priorTables

\* the two sequences hold the same rows the same number of times
SameRows(a, b) ==
    \A x \in {a[i] : i \in DOMAIN a} \cup {b[i] : i \in DOMAIN b} :
        Occurrences(a, x) = Occurrences(b, x)

SameContents(t, u) == SameRows(t[1], u[1]) /\ t[2] = u[2] /\ t[3] = u[3]

\* C12 (as claimed): a list of records that all hold samples of the same
\* metrics was exported without error; exporting a permutation of it into an equal store ends
\* without error too and leaves the same rows in the three tables.
C12_OrderIndependent ==
    (run = 2 /\ mode = "permuted" /\ mpc = "done" /\ firstResult = "ok"
        /\ AllHaveDevices(raw_data)
        /\ \A i \in DOMAIN raw_data : raw_data[i].metrics = raw_data[1].metrics)
    => (mresult = "ok" /\ SameContents(Tables, firstTables))

\* C13 (as claimed): exporting the same records a second time into the same
\* store leaves the three tables with the contents they had after the first
\* export (stated for a first export that went through every record).
C13_RetryIdempotent ==
    (run = 2 /\ mode = "retry" /\ mpc = "done" /\ firstResult \in {"ok", "KeyError"})
    => SameContents(Tables, firstTables)

\* C23: the job_metadata row of a merge counts the distinct ranks of the
\* input records, the distinct hostnames, and the devices summed over the
\* ranks; the merge leaves exactly one job_metadata row.  The records are
\* those of distinct files of one folder: no two share label and rank.
C23_JobRowCounts ==
    (/\ mpc = "done"
     /\ mresult = "ok"
     /\ \A i, j \in DOMAIN raw_data :
            (raw_data[i].label = raw_data[j].label
                /\ raw_data[i].proc_id = raw_data[j].proc_id) => i = j) =>
        LET ranks == {raw_data[i].proc_id : i \in DOMAIN raw_data}
            devices(p) ==
                UNION {{raw_data[i].gpu_ids[k] : k \in DOMAIN raw_data[i].gpu_ids} :
                          i \in {j \in DOMAIN raw_data : raw_data[j].proc_id = p}}
            RECURSIVE Sum(_)
            Sum(S) == IF S = {} THEN 0
                      ELSE LET p == CHOOSE x \in S : TRUE
                           IN Cardinality(devices(p)) + Sum(S \ {p})
        IN /\ Cardinality(jobTable) = 1
           /\ \A row \in jobTable :
                 /\ row.n_hosts =
                        Cardinality({raw_data[i].hostname : i \in DOMAIN raw_data})
                 /\ row.n_gpus = Sum(ranks)
                 /\ row.n_procs = Cardinality(ranks)

\* C24: a command mismatch is a hard error: when two input records report
\* different workload commands the merge fails and writes no job_metadata
\* row.  The records are those of distinct ranks that sampled the same
\* metrics on at least one device each.
C24_CommandMismatchRejected ==
    (/\ mpc = "done"
     /\ run = 1
     /\ AllHaveDevices(raw_data)
     /\ \A i, j \in DOMAIN raw_data :
            /\ raw_data[i].metrics = raw_data[j].metrics
            /\ raw_data[i].proc_id = raw_data[j].proc_id => i = j
     /\ \E i, j \in DOMAIN raw_data : raw_data[i].cmd # raw_data[j].cmd) =>
        /\ mresult # "ok"
        /\ jobTable = priorTables[3]

\* C25: a merge of an empty list of records fails with NoData before any
\* table is created: the three tables are what they were before (stated for
\* a store that holds the tables of an earlier step).
C25_EmptyInputRejected ==
    (mpc = "done" /\ run = 1 /\ input_files = <<>> /\ priorTables[2] # {}) =>
        /\ mresult = "NoData"
        /\ Tables = priorTables

\* the job id or the rank id cannot be resolved from the environment
Unresolved ==
    \E v \in {"SLURM_JOB_ID", "SLURM_PROCID"} : IntOf(environ[v]) = <<>>

\* C28: when the job id or the rank id cannot be resolved from the
\* environment, profiling fails with a configuration error before the sampler
\* is constructed: no SlurmJob and no sampler exist, no telemetry handle is
\* registered, no workload is launched and the capture writes no output.
C28_UnresolvedFailsEarly ==
    (rpc \in {"env", "idle"} \/ ~Unresolved) \/
        /\ rpc = "done"
        /\ outcome \in {"ConfigError", "ConfigValueError"}
        /\ job = <<>>
        /\ handle = "none"
        /\ child = "none"
        /\ polls = 0
        /\ recordFile.owner # "self"

\* profiling has failed on a rank whose SLURM_PROCID is unset, next to a
\* record that another process left under the same name
C28_Witness ==
    /\ rpc = "done"
    /\ environ.SLURM_JOB_ID = "1"
    /\ environ.SLURM_PROCID = "unset"
    /\ outcome = "ConfigError"
    /\ recordFile = ForeignRecord

\* the series is a step: lo on the first k samples and hi on the others, with
\* a relative gap (hi - lo) / hi of at least 0.15
Step(u, k, lo, hi) ==
    /\ k \in 1..(Len(u) - 1)
    /\ \A i \in 1..Len(u) : u[i] = IF i <= k THEN lo ELSE hi
    /\ 100 * (hi - lo) >= 15 * hi

C30_LowSignalRejected ==
    cpc = "done" =>
        LET below(u, A) ==
                LET B == (1..Len(u)) \ A
                    meanA == <<SumOver(A, u), Cardinality(A)>>
                    meanB == <<SumOver(B, u), Cardinality(B)>>
                    less == meanA[1] * meanB[2] <= meanB[1] * meanA[2]
                    lo == IF less THEN meanA ELSE meanB
                    hi == IF less THEN meanB ELSE meanA
                IN 100 * (hi[1] * lo[2] - lo[1] * hi[2]) < 15 * hi[1] * lo[2]
        IN ((cmode \in {"leading", "all"} => below(series, clusters[1]))
              /\ (cmode \in {"trailing", "all"}
                    => below(Reversed(series), clusters[2])))
           => mask = {}

\* detect has rejected the candidate of a series between 0.45 and 0.5
C30_Witness ==
    /\ cpc = "done"
    /\ cmode = "all"
    /\ series = <<45, 50, 50, 45, 50>>
    /\ mask = {}

\* C32: after a successful export into a store that holds the tables of the
\* earlier successful exports of the handler, every (job id, rank id) pair
\* of table "data" has a row in process_metadata and every job id of table
\* "data" has a row in job_metadata.
C32_ReferentialConsistency ==
    (mpc = "done" /\ mresult = "ok" /\ input_format = "binary")
    => \A k \in DOMAIN dataTable :
          /\ \E p \in processTable :
                p.job_id = dataTable[k].job_id /\ p.proc_id = dataTable[k].proc_id
          /\ \E j \in jobTable : j.job_id = dataTable[k].job_id

\* C33: in every record the sampler writes, the i-th samples of all series
\* of all devices were obtained in the same poll, for every index i.
C33_AlignedByPoll ==
    (recordFile.exists /\ recordFile.complete /\ recordFile.owner = "self")
    => \A g, h \in DOMAIN recordFile.data :
          \A m \in DOMAIN recordFile.data[g] : \A k \in DOMAIN recordFile.data[h] :
             \A i \in 1..recordFile.n_samples :
                recordFile.data[g][m][i] = recordFile.data[h][k][i]

\* C35: the values of the first poll after the launch are in no series, and
\* after k polls every series holds at most k - 1 samples.
C35_FirstPollDiscarded ==
    \A g \in DOMAIN data : \A m \in DOMAIN data[g] :
        /\ \A i \in DOMAIN data[g][m] : data[g][m][i] # 1
        /\ Len(data[g][m]) <= polls - 1

\* run has polled three times and a series holds the values of the second
\* and of the third poll
C35_Witness ==
    /\ polls = 3
    /\ \E g \in DOMAIN data : \E m \in DOMAIN data[g] : data[g][m] = <<2, 3>>

C38_IntervalClamped ==
    LET effective == IF requested >= 20 THEN requested ELSE 20
    IN /\ rpc \notin {"env", "init"} /\ job # <<>> => sampling_time = effective
       /\ handle = "registered" => updateFrequency = 1000 * effective
       /\ slept # 0 => slept = 1000 * effective
       /\ (recordFile.complete /\ recordFile.owner = "self")
             => recordFile.sampling_time = effective
       /\ (rpc = "done" /\ job # <<>> /\ handle = "none")
             => (outcome = "AlreadyExists" /\ recordFile.exists /\ ~force_overwrite)

\* a capture asked for 10 ms has slept and written its record with 20 ms
C38_Witness ==
    /\ requested = 10
    /\ rpc = "done"
    /\ outcome = "record"
    /\ updateFrequency = 20000
    /\ slept = 20000
    /\ recordFile.sampling_time = 20

\* the deadline of the capture lies beyond the last instant of the clock
DeadlineBeyondClock == max_runtime > 0 /\ start_time + max_runtime > MaxTime

\* C34: once the child has exited, or when a timeout is set, run eventually
\* ends by returning or raising (captures whose deadline the clock of the
\* model cannot reach are left aside).
C34_Terminates ==
    (child = "exited" \/ max_runtime > 0) ~> (rpc = "done" \/ DeadlineBeyondClock)

\* a capture without timeout has gone on polling past the recorded polls and
\* has ended after the exit of the child
C34_Witness ==
    /\ rpc = "done"
    /\ max_runtime <= 0
    /\ child = "exited"
    /\ polls = MaxPolls + 1
    /\ now = MaxTime
    /\ slept # 0
    /\ outcome = "record"

\* C31: when an export ends in JobMismatch or SchemaMismatch, a store that
\* was there before the handler is still there with the tables it had, also
\* when force_overwrite is set.
C31_FailedMergeKeepsStore ==
    (mpc = "done" /\ mresult \in {"JobMismatch", "SchemaMismatch"} /\ oldStore # <<>>)
    => (storeExists /\ Tables = oldStore[1])

\* C37: an input file that lacks a section does not make the export end in
\* the error of reading what it lacks.
C37_CorruptIgnored ==
    (mpc = "done" /\ \E i \in DOMAIN input_files : input_files[i].sections # Sections)
    => mresult # "TypeError"

\* C39: downsampleMetrics(data, n) returns exactly n values when
\* 1 <= n <= len(data), and the empty list when n <= 0 or data is empty.
C39_ExactlyN ==
    dspc = "done" =>
        /\ (1 <= nsegments /\ nsegments <= Len(values)) => Len(downsampled) = nsegments
        /\ (nsegments <= 0 \/ values = <<>>) => downsampled = <<>>

====
